---- MODULE Spec2Model ----
(***************************************************************************)
(* Virtual-DOM helper of typescript-webfoundations (dom.ts, the variant    *)
(* with {listener, options} records and composite tag|key child index).    *)
(*                                                                         *)
(* A description (VirtualDOM) is a record                                  *)
(*   [tagName, attributes, listeners, children]                            *)
(* whose optional fields are <<>> (undefined) or <<value>> (defined); it   *)
(* may also hold an optional namespaceURI.                                 *)
(* Attribute and listener mappings are JavaScript objects: sequences of    *)
(* [name, value] entries with distinct names, in insertion order.  A child *)
(* is a nested description or a string, written [text |-> s].              *)
(*                                                                         *)
(* The document is a heap of nodes indexed by node identity.  The DOM      *)
(* primitives the code calls are operators on a world [heap, log, raised]; *)
(* log is the sequence of mutating primitive calls made so far and raised  *)
(* tells that a primitive threw: what follows a throw does not run.        *)
(*                                                                         *)
(* Two further parts follow the value-level program.  "Descriptions by     *)
(* reference" runs createElement and updateElement on descriptions kept as *)
(* objects with identity, so that a write to an object of the caller can   *)
(* be told.  "The variant src/src/dom.ts" is the older program, whose      *)
(* updateElement checks the node it is given.                              *)
(***************************************************************************)
EXTENDS Integers, Sequences, FiniteSets, TLC

\* ------------------------------------------------------------------ bounds
\* longest children list drawn from a pool of children
MaxChildren == 2
\* most nodes of the live tree (the root included)
MaxNodes == 4
\* most entries of an attribute mapping and of a listener mapping
MaxAttributes == 2
MaxListeners == 2
\* most entries of the props a caller hands to createVirtual
MaxProps == 2
\* most objects of the store: those the caller wrote and the registries
MaxObjects == 14

\* --------------------------------------------------------------- constants
KEY_ATTRIBUTE == "key"
\* the namespace of the elements document.createElement makes
HTML_NAMESPACE == "http://www.w3.org/1999/xhtml"
SVG_NAMESPACE == "http://www.w3.org/2000/svg"
XML_NAMESPACE == "http://www.w3.org/XML/1998/namespace"
XMLNS_NAMESPACE == "http://www.w3.org/2000/xmlns/"
NULL == 0

\* ------------------------------------------------- JavaScript object model
\* An optional value: <<>> is undefined, <<v>> is v.
Undefined == <<>>
Some(v) == <<v>>
IsDefined(o) == Len(o) > 0
ValueOf(o) == o[1]

\* the one element of a singleton set; it names a result that is computed
\* once and used several times
The(set) == CHOOSE x \in set : TRUE

\* Object.hasOwn(obj, name), Map.prototype.has: an entry of its own
HasOwn(obj, name) == \E i \in DOMAIN obj : obj[i].name = name
\* the value of the own entry called name
GetOwn(obj, name) == obj[CHOOSE i \in DOMAIN obj : obj[i].name = name].value
\* an own entry written: an existing name keeps its place, a new one goes last
SetOwn(obj, name, value) ==
  IF HasOwn(obj, name)
  THEN [i \in DOMAIN obj |-> IF obj[i].name = name
                               THEN [name |-> name, value |-> value]
                               ELSE obj[i]]
  ELSE Append(obj, [name |-> name, value |-> value])
\* delete obj[name]
DeleteProperty(obj, name) == SelectSeq(obj, LAMBDA e : e.name # name)
\* the names of an object, as a set
PropertyNames(obj) == {obj[i].name : i \in DOMAIN obj}

\* the property names a plain object inherits from Object.prototype
ObjectPrototype ==
  {"constructor", "hasOwnProperty", "isPrototypeOf", "propertyIsEnumerable",
   "toLocaleString", "toString", "valueOf", "__proto__", "__defineGetter__",
   "__defineSetter__", "__lookupGetter__", "__lookupSetter__"}
\* obj[name] !== undefined on a plain object: an own entry, or a property
\* inherited from Object.prototype
HasProperty(obj, name) == HasOwn(obj, name) \/ name \in ObjectPrototype

\* the characters of a string, as a set
Chars(s) == {SubSeq(s, i, i) : i \in 1..Len(s)}
\* the decimal digits in ascending order, and the place of each
Digits == "0123456789"
DigitOf ==
  [c \in Chars(Digits) |->
     (CHOOSE i \in 1..Len(Digits) : SubSeq(Digits, i, i) = c) - 1]
\* the largest array index, 2^32 - 2, in decimal
MaxArrayIndex == "4294967294"
\* a < b for two strings of digits of the same length
RECURSIVE DigitsLess(_, _)
DigitsLess(a, b) ==
  /\ a # ""
  /\ \/ DigitOf[SubSeq(a, 1, 1)] < DigitOf[SubSeq(b, 1, 1)]
     \/ /\ SubSeq(a, 1, 1) = SubSeq(b, 1, 1)
        /\ DigitsLess(SubSeq(a, 2, Len(a)), SubSeq(b, 2, Len(b)))
\* a < b for two canonical numeric strings: the shorter is the smaller
IndexLess(a, b) ==
  \/ Len(a) < Len(b)
  \/ (Len(a) = Len(b) /\ DigitsLess(a, b))
\* an integer-like property name (an array index): the canonical decimal
\* form, without sign or leading zero, of an integer from 0 to 2^32 - 2
IsArrayIndex(name) ==
  /\ name # ""
  /\ SubSeq(name, 1, 1) \in DOMAIN DigitOf
  /\ Chars(name) \subseteq DOMAIN DigitOf
  /\ (Len(name) > 1 => SubSeq(name, 1, 1) # "0")
  /\ ~IndexLess(MaxArrayIndex, name)
\* the own entries of a plain object after one was written: an existing name
\* keeps its place; a new integer-like name goes among the integer-like names,
\* which an object lists first and in ascending order; any other new name
\* goes last
WriteOwn(entries, name, value) ==
  IF HasOwn(entries, name) \/ ~IsArrayIndex(name) THEN SetOwn(entries, name, value)
  ELSE LET smaller == {i \in DOMAIN entries :
                         /\ IsArrayIndex(entries[i].name)
                         /\ IndexLess(entries[i].name, name)}
           k == Cardinality(smaller)
       IN SubSeq(entries, 1, k) \o <<[name |-> name, value |-> value]>>
            \o SubSeq(entries, k + 1, Len(entries))

\* A plain object the program writes under computed names is [own, proto]:
\* its own entries and its prototype, Undefined while that is Object.prototype
\* and the object that replaced it afterwards.
ObjectWith(own, proto) == [own |-> own, proto |-> proto]
\* {}
EmptyObject == ObjectWith(<<>>, Undefined)
\* obj[name] = value.  Unless the object has an own entry of that name, the
\* name __proto__ reaches the setter inherited from Object.prototype: it makes
\* no own entry, it replaces the prototype of obj by a value that is an
\* object (isObject) and ignores a value that is none, such as a string.
\* Every other name writes an own entry.
SetProperty(obj, name, value, isObject) ==
  IF name = "__proto__" /\ ~HasOwn(obj.own, name)
  THEN IF isObject THEN [obj EXCEPT !.proto = Some(value)] ELSE obj
  ELSE [obj EXCEPT !.own = WriteOwn(@, name, value)]
\* delete obj[name]: the own entry goes, the prototype stays
Deleted(obj, name) == [obj EXCEPT !.own = DeleteProperty(@, name)]
\* the own entries of an optional object, and its prototype
OwnOf(objOpt) == IF IsDefined(objOpt) THEN Some(ValueOf(objOpt).own) ELSE Undefined
ProtoOf(objOpt) == IF IsDefined(objOpt) THEN ValueOf(objOpt).proto ELSE Undefined
\* obj[name] on a mapping of {listener, options} records, as far as the value
\* is such a record: the own entry or, under the name __proto__, the record
\* that replaced the prototype (the getter inherited from Object.prototype
\* returns it)
RecordAt(obj, name) ==
  IF HasOwn(obj.own, name) THEN Some(GetOwn(obj.own, name))
  ELSE IF name = "__proto__" THEN obj.proto
  ELSE Undefined

\* A handler is a function or an object with handleEvent, named by its
\* reference.  The properties a handler holds beside handleEvent, as far as
\* their values are handlers: handlerObject2 is
\* {handleEvent() {}, listener: handler2}, the other handlers hold none.
HandlerProperties(handler) ==
  IF handler = "handlerObject2"
  THEN <<[name |-> "listener", value |-> "handler2"]>>
  ELSE <<>>
\* handler[name], as far as the value is a handler
PropertyOf(handler, name) ==
  IF HasOwn(HandlerProperties(handler), name)
  THEN Some(GetOwn(HandlerProperties(handler), name))
  ELSE Undefined
\* obj[name]?.listener on a mapping of {listener, options} records, an
\* optional handler: the listener of the record RecordAt finds; under the name
\* listener, which obj inherits from the record that replaced its prototype,
\* the listener property of the handler of that record.  The options obj
\* inherits from that record and the members of Object.prototype have no
\* listener property.
ListenerAt(obj, name) ==
  IF IsDefined(RecordAt(obj, name))
  THEN Some(ValueOf(RecordAt(obj, name)).listener)
  ELSE IF name = "listener" /\ IsDefined(obj.proto)
  THEN PropertyOf(ValueOf(obj.proto).listener, "listener")
  ELSE Undefined

\* A string of the model holds the characters U+0001 to U+00FF.
\* the ASCII letters, upper and lower case in the same order
UpperCaseLetters == "ABCDEFGHIJKLMNOPQRSTUVWXYZ"
LowerCaseLetters == "abcdefghijklmnopqrstuvwxyz"
\* the other letters up to U+00FF that have a lower-case letter of their own
\* (U+00C0 to U+00DE without the multiplication sign), and these lower-case
\* letters in the same order
UpperCaseLatin1 == "ÀÁÂÃÄÅÆÇÈÉÊËÌÍÎÏÐÑÒÓÔÕÖØÙÚÛÜÝÞ"
LowerCaseLatin1 == "àáâãäåæçèéêëìíîïðñòóôõöøùúûüýþ"
\* each character of from with the character of to at the same place
CaseOf(from, to) ==
  [c \in Chars(from) |->
     SubSeq(to, CHOOSE i \in 1..Len(from) : SubSeq(from, i, i) = c,
                CHOOSE i \in 1..Len(from) : SubSeq(from, i, i) = c)]
\* the lower-case letter of each upper-case letter; of the ASCII letters
\* alone; and the upper-case letter of each ASCII lower-case letter
LowerCaseOf ==
  CaseOf(UpperCaseLetters \o UpperCaseLatin1, LowerCaseLetters \o LowerCaseLatin1)
AsciiLowerCaseOf == CaseOf(UpperCaseLetters, LowerCaseLetters)
AsciiUpperCaseOf == CaseOf(LowerCaseLetters, UpperCaseLetters)
\* s with each character replaced that the table maps
RECURSIVE Converted(_, _)
Converted(s, table) ==
  IF s = "" THEN ""
  ELSE (IF SubSeq(s, 1, 1) \in DOMAIN table
        THEN table[SubSeq(s, 1, 1)] ELSE SubSeq(s, 1, 1))
         \o Converted(SubSeq(s, 2, Len(s)), table)
\* String.prototype.toLowerCase: every letter that has a lower-case letter
toLowerCase(s) == Converted(s, LowerCaseOf)
\* the DOM's ASCII lowercase and ASCII uppercase: the ASCII letters only
AsciiLowerCase(s) == Converted(s, AsciiLowerCaseOf)
AsciiUpperCase(s) == Converted(s, AsciiUpperCaseOf)
\* String.prototype.startsWith
startsWith(s, prefix) ==
  Len(s) >= Len(prefix) /\ SubSeq(s, 1, Len(prefix)) = prefix
\* String.prototype.slice(start), start counted from 0
slice(s, start) == SubSeq(s, start + 1, Len(s))

\* typeof child === "object": a nested description, not a string
IsObject(child) == "tagName" \in DOMAIN child
\* AddEventListenerOptions.capture, the flag that identifies a DOM listener
Capture(options) == options = "capture"

\* ------------------------------------------------------------ createVirtual
\* A prop value is a JavaScript value tagged with its typeof: a string, a
\* number, a boolean, a function (a reference and its source text), an object
\* (with the property names it has), null (an object by typeof) or undefined.
\* name.startsWith("on")
StartsWithOn(name) == startsWith(name, "on")
\* name.slice(2).toLowerCase()
ListenerName(name) == toLowerCase(slice(name, 2))
\* value === null
IsNull(value) == value.typeof = "object" /\ "null" \in DOMAIN value
\* typeof value === 'function' || (typeof value === 'object' && 'handleEvent' in value)
IsHandler(value) ==
  \/ value.typeof = "function"
  \/ (value.typeof = "object" /\ "handleEvent" \in value.has)
\* typeof value === 'object' && 'listener' in value
IsListenerRecord(value) ==
  value.typeof = "object" /\ "listener" \in value.has
\* the Listener a prop value yields: an optional {listener, options} record
ListenerOf(value) ==
  IF IsHandler(value)
  THEN Some([listener |-> value.ref, options |-> "undefined"])
  ELSE IF IsListenerRecord(value) THEN Some(value.record)
  ELSE Undefined
\* if (value): undefined, null, the empty string, 0 and false are falsy
IsTruthy(value) ==
  CASE value.typeof = "undefined" -> FALSE
    [] value.typeof = "string" -> value.string # ""
    [] value.typeof = "number" -> value.number # 0
    [] value.typeof = "boolean" -> value.boolean
    [] OTHER -> ~IsNull(value)
\* value.toString(): a function gives its source text, an object that
\* inherits Object.prototype.toString gives "[object Object]"
toString(value) ==
  CASE value.typeof = "string" -> value.string
    [] value.typeof = "number" -> ToString(value.number)
    [] value.typeof = "boolean" -> IF value.boolean THEN "true" ELSE "false"
    [] value.typeof = "function" -> value.source
    [] OTHER -> "[object Object]"

\* 'handleEvent' in value throws a TypeError when value is null: a prop whose
\* name starts with "on" and whose value is null ends the call
RECURSIVE createVirtualRaises(_)
createVirtualRaises(entries) ==
  IF entries = <<>> THEN FALSE
  ELSE \/ (StartsWithOn(Head(entries).name) /\ IsNull(Head(entries).value))
       \/ createVirtualRaises(Tail(entries))

\* the loop over Object.entries(props): acc = [attributes, listeners], both
\* optional objects; a listener is an object, an attribute value a string
RECURSIVE createVirtualEntries(_, _)
createVirtualEntries(acc, entries) ==
  IF entries = <<>> THEN acc
  ELSE LET name == Head(entries).name
           value == Head(entries).value
           listener == IF StartsWithOn(name) THEN ListenerOf(value) ELSE Undefined
           next ==
             IF IsDefined(listener)
             THEN [acc EXCEPT !.listeners =
                     Some(SetProperty(IF IsDefined(@) THEN ValueOf(@) ELSE EmptyObject,
                                      ListenerName(name), ValueOf(listener),
                                      TRUE))]
             ELSE IF IsTruthy(value)
             THEN [acc EXCEPT !.attributes =
                     Some(SetProperty(IF IsDefined(@) THEN ValueOf(@) ELSE EmptyObject,
                                      name, toString(value), FALSE))]
             ELSE acc
       IN createVirtualEntries(next, Tail(entries))

\* a variant that stores the rest arguments even when there are none
createVirtualKeepsEmpty(tagName, propsOpt, children) ==
  LET acc == IF IsDefined(propsOpt)
             THEN createVirtualEntries([attributes |-> Undefined,
                                        listeners |-> Undefined],
                                       ValueOf(propsOpt))
             ELSE [attributes |-> Undefined, listeners |-> Undefined]
  IN [tagName |-> tagName,
      attributes |-> OwnOf(acc.attributes),
      listeners |-> OwnOf(acc.listeners),
      listenersPrototype |-> ProtoOf(acc.listeners),
      children |-> Some(children)]

\* createVirtual(tagName, props, ...children); propsOpt is an optional
\* mapping.  The description lists the own entries of its attributes and of
\* its listeners; listenersPrototype is the prototype of the listeners object
\* when a prop on__proto__ replaced it.
createVirtual(tagName, propsOpt, children) ==
  LET acc == IF IsDefined(propsOpt)
             THEN createVirtualEntries([attributes |-> Undefined,
                                        listeners |-> Undefined],
                                       ValueOf(propsOpt))
             ELSE [attributes |-> Undefined, listeners |-> Undefined]
  IN [tagName |-> tagName,
      attributes |-> OwnOf(acc.attributes),
      listeners |-> OwnOf(acc.listeners),
      listenersPrototype |-> ProtoOf(acc.listeners),
      children |-> IF Len(children) > 0 THEN Some(children) ELSE Undefined]

\* ----------------------------------------------------------- DOM primitives
\* Each takes and returns a world w = [heap, log, raised].  A primitive that
\* throws changes nothing but raised, and nothing runs in a world that raised.
\* the ASCII characters a name may not hold, and those it may start with
AsciiWhitespace == {"\t", "\n", "\f", "\r", " "}
AsciiAlpha == Chars(UpperCaseLetters) \cup Chars(LowerCaseLetters)
AsciiAlphanumeric == AsciiAlpha \cup Chars(Digits)
\* the control characters beside the whitespace: U+0001 to U+001F and U+007F
AsciiControl == Chars("")
\* the ASCII characters a string of the model can hold (U+0000 and U+0060 it
\* cannot); the other characters are U+0080 and up
AsciiCharacters ==
  AsciiWhitespace \cup AsciiControl \cup AsciiAlphanumeric
    \cup Chars("!\"#$%&'()*+,-./:;<=>?@[\\]^_{|}~")
\* a valid element local name: a name that starts with an ASCII letter holds
\* no whitespace, "/" or ">"; any other name starts with ":", "_" or a
\* character from U+0080 and goes on with ASCII letters and digits, "-", ".",
\* ":", "_" and characters from U+0080
IsValidElementLocalName(name) ==
  /\ name # ""
  /\ IF SubSeq(name, 1, 1) \in AsciiAlpha
     THEN Chars(name) \cap (AsciiWhitespace \cup {"/", ">"}) = {}
     ELSE /\ SubSeq(name, 1, 1) \in {":", "_"}
             \/ SubSeq(name, 1, 1) \notin AsciiCharacters
          /\ \A c \in Chars(SubSeq(name, 2, Len(name))) :
               \/ c \in AsciiAlphanumeric \cup {"-", ".", ":", "_"}
               \/ c \notin AsciiCharacters
\* a valid attribute local name: not empty, no whitespace, "/", "=" or ">"
IsValidAttributeLocalName(name) ==
  /\ name # ""
  /\ Chars(name) \cap (AsciiWhitespace \cup {"/", "=", ">"}) = {}
\* a valid namespace prefix: not empty, no whitespace, "/" or ">"
IsValidNamespacePrefix(prefix) ==
  /\ prefix # ""
  /\ Chars(prefix) \cap (AsciiWhitespace \cup {"/", ">"}) = {}
\* the place of the first ":" of a qualified name, 0 when it has none
ColonAt(qualifiedName) ==
  IF ":" \in Chars(qualifiedName)
  THEN CHOOSE i \in 1..Len(qualifiedName) :
         /\ SubSeq(qualifiedName, i, i) = ":"
         /\ \A j \in 1..(i - 1) : SubSeq(qualifiedName, j, j) # ":"
  ELSE 0
\* validate and extract a namespace and a qualified name, for an element:
\* whether it throws (InvalidCharacterError for the characters of the prefix
\* and of the local name, NamespaceError for a prefix its namespace forbids)
QualifiedNameRaises(namespaceURI, qualifiedName) ==
  LET colon == ColonAt(qualifiedName)
      prefix == SubSeq(qualifiedName, 1, colon - 1)
      localName == SubSeq(qualifiedName, colon + 1, Len(qualifiedName))
  IN \/ (colon > 0 /\ ~IsValidNamespacePrefix(prefix))
     \/ ~IsValidElementLocalName(localName)
     \/ (colon > 0 /\ namespaceURI = "")
     \/ (colon > 0 /\ prefix = "xml" /\ namespaceURI # XML_NAMESPACE)
     \/ /\ qualifiedName = "xmlns" \/ (colon > 0 /\ prefix = "xmlns")
        /\ namespaceURI # XMLNS_NAMESPACE
     \/ /\ namespaceURI = XMLNS_NAMESPACE
        /\ qualifiedName # "xmlns"
        /\ ~(colon > 0 /\ prefix = "xmlns")
\* the world after a primitive threw
Raise(w) == [w EXCEPT !.raised = TRUE]
IsElement(heap, n) == n \in DOMAIN heap /\ heap[n].nodeType = "element"
IsText(heap, n) == n \in DOMAIN heap /\ heap[n].nodeType = "text"

\* the next unused node identity
NewNodeId(heap) == CHOOSE i \in 1..(Cardinality(DOMAIN heap) + 1) :
                     /\ i \notin DOMAIN heap
                     /\ \A j \in 1..(i - 1) : j \in DOMAIN heap

\* a new element of the HTML document: in the HTML namespace tagName is the
\* qualified name in ASCII uppercase, in any other namespace the name as given
NewElement(w, namespaceURI, qualifiedName) ==
  LET id == NewNodeId(w.heap)
      node == [nodeType |-> "element",
               namespaceURI |-> namespaceURI,
               tagName |-> IF namespaceURI = HTML_NAMESPACE
                           THEN AsciiUpperCase(qualifiedName)
                           ELSE qualifiedName,
               attributes |-> <<>>, registered |-> Undefined,
               listeners |-> {}, childNodes |-> <<>>]
  IN [w |-> [w EXCEPT !.heap = (id :> node) @@ w.heap,
                      !.log = Append(w.log, <<"createElement", id>>)],
      node |-> id]

\* document.createElement(tagName): returns [w, node]; a name that is not a
\* valid element local name throws InvalidCharacterError and yields no node
DocumentCreateElement(w, tagName) ==
  IF w.raised THEN [w |-> w, node |-> NULL]
  ELSE IF ~IsValidElementLocalName(tagName) THEN [w |-> Raise(w), node |-> NULL]
  ELSE NewElement(w, HTML_NAMESPACE, tagName)
\* document.createElementNS(namespaceURI, tagName): returns [w, node]; throws
\* when the namespace and the qualified name do not validate
DocumentCreateElementNS(w, namespaceURI, tagName) ==
  IF w.raised THEN [w |-> w, node |-> NULL]
  ELSE IF QualifiedNameRaises(namespaceURI, tagName)
  THEN [w |-> Raise(w), node |-> NULL]
  ELSE NewElement(w, namespaceURI, tagName)

\* document.createTextNode(text): returns [w, node]
DocumentCreateTextNode(w, text) ==
  LET id == NewNodeId(w.heap)
      node == [nodeType |-> "text", textContent |-> text]
  IN IF w.raised THEN [w |-> w, node |-> NULL]
     ELSE [w |-> [w EXCEPT !.heap = (id :> node) @@ w.heap,
                           !.log = Append(w.log, <<"createTextNode", id>>)],
           node |-> id]

\* element.getAttributeNames()
GetAttributeNames(heap, e) ==
  [i \in DOMAIN heap[e].attributes |-> heap[e].attributes[i].name]
\* the name under which an attribute method looks: an element in the HTML
\* namespace puts the name it is given in ASCII lowercase
AttributeName(heap, e, name) ==
  IF heap[e].namespaceURI = HTML_NAMESPACE THEN AsciiLowerCase(name) ELSE name
\* element.hasAttribute(name)
HasAttribute(heap, e, name) ==
  HasOwn(heap[e].attributes, AttributeName(heap, e, name))
\* element.getAttribute(name): an optional string (null is Undefined)
GetAttribute(heap, e, name) ==
  IF HasAttribute(heap, e, name)
  THEN Some(GetOwn(heap[e].attributes, AttributeName(heap, e, name)))
  ELSE Undefined

\* element.setAttribute(name, value): a name that is not a valid attribute
\* local name throws InvalidCharacterError
SetAttribute(w, e, name, value) ==
  IF w.raised THEN w
  ELSE IF ~IsValidAttributeLocalName(name) THEN Raise(w)
  ELSE [w EXCEPT !.heap[e].attributes =
                   SetOwn(@, AttributeName(w.heap, e, name), value),
                 !.log = Append(@, <<"setAttribute", e, name, value>>)]

\* element.removeAttribute(name)
RemoveAttribute(w, e, name) ==
  IF w.raised THEN w
  ELSE [w EXCEPT !.heap[e].attributes =
                   DeleteProperty(@, AttributeName(w.heap, e, name)),
                 !.log = Append(@, <<"removeAttribute", e, name>>)]

\* element.addEventListener(type, callback, options): the event listener list
\* holds at most one entry per (type, callback, capture)
AddEventListener(w, e, type, callback, options) ==
  IF w.raised THEN w
  ELSE [w EXCEPT !.heap[e].listeners =
                   @ \cup {[type |-> type, callback |-> callback,
                            capture |-> Capture(options)]},
                 !.log = Append(@, <<"addEventListener", e, type, callback,
                                     options>>)]

\* element.removeEventListener(type, callback, options)
RemoveEventListener(w, e, type, callback, options) ==
  IF w.raised THEN w
  ELSE [w EXCEPT !.heap[e].listeners =
                   @ \ {[type |-> type, callback |-> callback,
                         capture |-> Capture(options)]},
                 !.log = Append(@, <<"removeEventListener", e, type, callback,
                                     options>>)]

\* node.parentNode: the element that lists n as a child, or NULL
ParentNode(heap, n) ==
  IF \E p \in DOMAIN heap :
       IsElement(heap, p) /\ \E i \in DOMAIN heap[p].childNodes : heap[p].childNodes[i] = n
  THEN CHOOSE p \in DOMAIN heap :
       IsElement(heap, p) /\ \E i \in DOMAIN heap[p].childNodes : heap[p].childNodes[i] = n
  ELSE NULL

\* node.nextSibling, or NULL
NextSibling(heap, n) ==
  LET p == ParentNode(heap, n) IN
  IF p = NULL THEN NULL
  ELSE LET cs == heap[p].childNodes
           i == CHOOSE k \in DOMAIN cs : cs[k] = n
       IN IF i < Len(cs) THEN cs[i + 1] ELSE NULL

\* the child list cs without node n
Without(cs, n) == SelectSeq(cs, LAMBDA c : c # n)
\* the child list cs with node n put before ref (at the end when ref is NULL)
PutBefore(cs, n, ref) ==
  IF ref = NULL THEN Append(cs, n)
  ELSE LET i == CHOOSE k \in DOMAIN cs : cs[k] = ref
       IN SubSeq(cs, 1, i - 1) \o <<n>> \o SubSeq(cs, i, Len(cs))

\* the heap after node n left its parent (if any) and went before ref in p;
\* a reference that is the node itself stands for the node's next sibling
Placed(heap, p, n, ref) ==
  LET old == ParentNode(heap, n)
      before == IF ref = n THEN NextSibling(heap, n) ELSE ref
      h1 == IF old = NULL THEN heap
            ELSE [heap EXCEPT ![old].childNodes = Without(@, n)]
  IN [h1 EXCEPT ![p].childNodes = PutBefore(@, n, before)]

\* whether node a is node n or one of its ancestors
RECURSIVE IsInclusiveAncestor(_, _, _)
IsInclusiveAncestor(heap, a, n) ==
  n # NULL /\ (a = n \/ IsInclusiveAncestor(heap, a, ParentNode(heap, n)))
\* the root of the tree that holds node n
RECURSIVE RootOf(_, _)
RootOf(heap, n) ==
  IF ParentNode(heap, n) = NULL THEN n ELSE RootOf(heap, ParentNode(heap, n))
\* ensure pre-insertion validity, whether it throws: HierarchyRequestError
\* when the parent is no element or the node is the parent or one of its
\* ancestors, NotFoundError when the reference is no child of the parent
InsertionRaises(heap, p, n, ref) ==
  \/ ~IsElement(heap, p)
  \/ IsInclusiveAncestor(heap, n, p)
  \/ (ref # NULL /\ ParentNode(heap, ref) # p)

\* parent.appendChild(node)
AppendChild(w, p, n) ==
  IF w.raised THEN w
  ELSE IF InsertionRaises(w.heap, p, n, NULL) THEN Raise(w)
  ELSE [w EXCEPT !.heap = Placed(w.heap, p, n, NULL),
                 !.log = Append(@, <<"appendChild", p, n>>)]
\* parent.insertBefore(node, ref)
InsertBefore(w, p, n, ref) ==
  IF w.raised THEN w
  ELSE IF InsertionRaises(w.heap, p, n, ref) THEN Raise(w)
  ELSE [w EXCEPT !.heap = Placed(w.heap, p, n, ref),
                 !.log = Append(@, <<"insertBefore", p, n, ref>>)]
\* parent.moveBefore(node, ref): it throws HierarchyRequestError when the
\* node is in another tree than the parent, and as an insertion before the
\* reference it resolved throws
MoveBefore(w, p, n, ref) ==
  IF w.raised THEN w
  ELSE IF \/ RootOf(w.heap, p) # RootOf(w.heap, n)
          \/ InsertionRaises(w.heap, p, n,
                             IF ref = n THEN NextSibling(w.heap, n) ELSE ref)
  THEN Raise(w)
  ELSE [w EXCEPT !.heap = Placed(w.heap, p, n, ref),
                 !.log = Append(@, <<"moveBefore", p, n, ref>>)]
\* parent.removeChild(node): a node that is no child of the parent throws
\* NotFoundError
RemoveChild(w, p, n) ==
  IF w.raised THEN w
  ELSE IF ParentNode(w.heap, n) # p THEN Raise(w)
  ELSE [w EXCEPT !.heap[p].childNodes = Without(@, n),
                 !.log = Append(@, <<"removeChild", p, n>>)]

\* ------------------------------------------------------------ createElement
\* createElement, "Set attributes": one setAttribute per entry, in order
RECURSIVE createElementAttributes(_, _, _)
createElementAttributes(w, element, attributes) ==
  IF attributes = <<>> \/ w.raised THEN w
  ELSE The({ createElementAttributes(w1, element, Tail(attributes)) :
             w1 \in { SetAttribute(w, element, Head(attributes).name,
                                    Head(attributes).value) } })

\* element[REGISTERED_LISTENERS] ?? {}: the registry object of an element
Registry(heap, element) ==
  IF IsDefined(heap[element].registered)
  THEN ValueOf(heap[element].registered) ELSE EmptyObject

\* (element[REGISTERED_LISTENERS] ??= {})[name] = value; value is a
\* {listener, options} record
Register(w, element, name, value) ==
  IF w.raised THEN w
  ELSE [w EXCEPT !.heap[element].registered =
          Some(SetProperty(Registry(w.heap, element), name, value, TRUE))]

\* createElement, "Add event listeners": attach and record each entry
RECURSIVE createElementListeners(_, _, _)
createElementListeners(w, element, listeners) ==
  IF listeners = <<>> \/ w.raised THEN w
  ELSE LET name == Head(listeners).name
           value == Head(listeners).value
       IN The({ createElementListeners(w2, element, Tail(listeners)) :
                w2 \in { Register(w1, element, name, value) :
                         w1 \in { AddEventListener(w, element, name,
                                                   value.listener,
                                                   value.options) } } })

\* virtual.namespaceURI, "" when the description has none (falsy either way)
NamespaceURI(virtual) ==
  IF "namespaceURI" \in DOMAIN virtual /\ IsDefined(virtual.namespaceURI)
  THEN ValueOf(virtual.namespaceURI) ELSE ""

\* createElement(virtual): returns [w, node]
RECURSIVE createElement(_, _)
RECURSIVE createElementChildren(_, _, _)
\* createElement, "Add child nodes"
createElementChildren(w, element, children) ==
  IF children = <<>> \/ w.raised THEN w
  ELSE LET child == Head(children)
       IN The({ createElementChildren(w1, element, Tail(children)) :
                w1 \in { AppendChild(made.w, element, made.node) :
                         made \in { IF IsObject(child)
                                    THEN createElement(w, child)
                                    ELSE DocumentCreateTextNode(w, child.text) } } })

\* the steps of createElement after the element was made: set attributes,
\* add event listeners, add child nodes
createElementFill(made, virtual) ==
  The({ [w |-> IF IsDefined(virtual.children)
               THEN createElementChildren(w2, made.node, ValueOf(virtual.children))
               ELSE w2,
         node |-> made.node] :
        w2 \in { IF IsDefined(virtual.listeners)
                 THEN createElementListeners(w1, made.node, ValueOf(virtual.listeners))
                 ELSE w1 :
                 w1 \in { IF IsDefined(virtual.attributes)
                          THEN createElementAttributes(made.w, made.node,
                                                       ValueOf(virtual.attributes))
                          ELSE made.w } } })

createElement(w, virtual) ==
  The({ createElementFill(made, virtual) :
        made \in { IF NamespaceURI(virtual) # ""
                   THEN DocumentCreateElementNS(w, NamespaceURI(virtual),
                                                virtual.tagName)
                   ELSE DocumentCreateElement(w, virtual.tagName) } })

\* --------------------------------------------------------- updateAttributes
\* !attributes[name]: the own value is the empty string, or the mapping
\* neither has nor inherits the name (an inherited property is truthy)
IsFalsyAttribute(attributes, name) ==
  IF HasOwn(attributes, name)
  THEN GetOwn(attributes, name) = ""
  ELSE ~HasProperty(attributes, name)

\* first loop: the present names the new mapping does not (truthily) hold
NamesToRemove(heap, element, attributes) ==
  SelectSeq(GetAttributeNames(heap, element),
            LAMBDA name : IsFalsyAttribute(attributes, name))

\* second loop: set every entry whose current value differs
RECURSIVE updateAttributesSet(_, _, _)
updateAttributesSet(w, element, entries) ==
  IF entries = <<>> \/ w.raised THEN w
  ELSE LET name == Head(entries).name
           value == Head(entries).value
       IN The({ updateAttributesSet(w1, element, Tail(entries)) :
                w1 \in { IF GetAttribute(w.heap, element, name) # Some(value)
                         THEN SetAttribute(w, element, name, value)
                         ELSE w } })

\* third loop: remove the names collected by the first
RECURSIVE updateAttributesRemove(_, _, _)
updateAttributesRemove(w, element, names) ==
  IF names = <<>> \/ w.raised THEN w
  ELSE The({ updateAttributesRemove(w1, element, Tail(names)) :
             w1 \in { RemoveAttribute(w, element, Head(names)) } })

updateAttributes(w, element, attributesOpt) ==
  LET attributes == IF IsDefined(attributesOpt) THEN ValueOf(attributesOpt) ELSE <<>>
      namesToRemove == NamesToRemove(w.heap, element, attributes)
  IN The({ updateAttributesRemove(w1, element, namesToRemove) :
           w1 \in { updateAttributesSet(w, element, attributes) } })

\* ---------------------------------------------------------- updateListeners
\* Object.entries(element[REGISTERED_LISTENERS] ?? {}): the own entries of
\* the registry of an element
RegisteredListeners(heap, element) == Registry(heap, element).own

\* the listeners object updateListeners receives: the own entries the
\* description lists, with the prototype createVirtual may have replaced
Listeners(virtual) ==
  IF IsDefined(virtual.listeners)
  THEN Some(ObjectWith(ValueOf(virtual.listeners),
                       IF "listenersPrototype" \in DOMAIN virtual
                       THEN virtual.listenersPrototype ELSE Undefined))
  ELSE Undefined

\* a variant that looks only at the event name
ListenerDiffersByName(obj, name, value) == ~IsDefined(RecordAt(obj, name))

\* obj[name]?.listener !== value.listener: the lookup goes through the
\* prototype of obj
ListenerDiffers(obj, name, value) ==
  ListenerAt(obj, name) # Some(value.listener)

\* a variant of the first loop that detaches with the options of the new
\* mapping when it has the name
RECURSIVE updateListenersRemoveNewOptions(_, _, _, _)
updateListenersRemoveNewOptions(w, element, entries, listeners) ==
  IF entries = <<>> \/ w.raised THEN w
  ELSE LET name == Head(entries).name
           value == Head(entries).value
           options == IF HasOwn(listeners.own, name)
                      THEN GetOwn(listeners.own, name).options
                      ELSE value.options
       IN The({ updateListenersRemoveNewOptions(w1, element, Tail(entries),
                                                listeners) :
                w1 \in { IF ListenerDiffers(listeners, name, value)
                         THEN The({ [w0 EXCEPT !.heap[element].registered =
                                       Some(Deleted(ValueOf(@), name))] :
                                    w0 \in { RemoveEventListener(
                                               w, element, name,
                                               value.listener, options) } })
                         ELSE w } })

\* first loop, over the entries the registry had on entry
RECURSIVE updateListenersRemove(_, _, _, _)
updateListenersRemove(w, element, entries, listeners) ==
  IF entries = <<>> \/ w.raised THEN w
  ELSE LET name == Head(entries).name
           value == Head(entries).value
       IN The({ updateListenersRemove(w1, element, Tail(entries), listeners) :
                w1 \in { IF ListenerDiffers(listeners, name, value)
                         THEN The({ [w0 EXCEPT !.heap[element].registered =
                                       Some(Deleted(ValueOf(@), name))] :
                                    w0 \in { RemoveEventListener(
                                               w, element, name,
                                               value.listener, value.options) } })
                         ELSE w } })

\* second loop, over the entries of the new mapping
RECURSIVE updateListenersAdd(_, _, _)
updateListenersAdd(w, element, entries) ==
  IF entries = <<>> \/ w.raised THEN w
  ELSE LET name == Head(entries).name
           value == Head(entries).value
       IN The({ updateListenersAdd(w1, element, Tail(entries)) :
                w1 \in { IF ListenerDiffers(Registry(w.heap, element),
                                            name, value)
                         THEN The({ Register(w0, element, name, value) :
                                    w0 \in { AddEventListener(
                                               w, element, name,
                                               value.listener, value.options) } })
                         ELSE w } })

\* updateListeners(element, listeners); nothing of it runs once the call threw
updateListeners(w, element, listenersOpt) ==
  LET listeners == IF IsDefined(listenersOpt) THEN ValueOf(listenersOpt)
                   ELSE EmptyObject
  IN The({ updateListenersAdd(w1, element, listeners.own) :
           w1 \in { updateListenersRemove(w0, element,
                                          RegisteredListeners(w0.heap, element),
                                          listeners) :
                    w0 \in { IF w.raised THEN w
                             ELSE [w EXCEPT !.heap[element].registered =
                                     Some(Registry(w.heap, element))] } } })

\* ----------------------------------------------------------- updateChildren
\* a variant that starts a new list on every call
getMapListFresh(map, key) ==
  [map |-> IF HasOwn(map, key) THEN map
           ELSE Append(map, [name |-> key, value |-> <<>>]),
   values |-> <<>>]

\* getMapList(map, key): the list under key, created empty when missing;
\* returns [map, values]
getMapList(map, key) ==
  IF HasOwn(map, key)
  THEN [map |-> map, values |-> GetOwn(map, key)]
  ELSE [map |-> Append(map, [name |-> key, value |-> <<>>]), values |-> <<>>]

\* a variant that keeps the case of the live tag name
ElementKeyCaseSensitive(heap, node) ==
  LET key == heap[node].tagName
  IN IF HasAttribute(heap, node, KEY_ATTRIBUTE)
     THEN key \o "|" \o ValueOf(GetAttribute(heap, node, KEY_ATTRIBUTE))
     ELSE key

\* the index key of a live element child: tag, then "|" and the key attribute
\* when the element has one
ElementKey(heap, node) ==
  LET key == toLowerCase(heap[node].tagName)
  IN IF HasAttribute(heap, node, KEY_ATTRIBUTE)
     THEN key \o "|" \o ValueOf(GetAttribute(heap, node, KEY_ATTRIBUTE))
     ELSE key

\* child.attributes?.[KEY_ATTRIBUTE], as a truthy test
HasTruthyKey(child) ==
  /\ IsDefined(child.attributes)
  /\ ~IsFalsyAttribute(ValueOf(child.attributes), KEY_ATTRIBUTE)

\* the index key of a child description
VirtualKey(child) ==
  LET key == toLowerCase(child.tagName)
  IN IF HasTruthyKey(child)
     THEN key \o "|" \o GetOwn(ValueOf(child.attributes), KEY_ATTRIBUTE)
     ELSE key

\* "Index the old children": returns [elements, texts]
RECURSIVE IndexChildren(_, _, _)
IndexChildren(heap, nodes, index) ==
  IF nodes = <<>> THEN index
  ELSE LET node == Head(nodes)
           next ==
             IF IsElement(heap, node)
             THEN LET got == getMapList(index.elements, ElementKey(heap, node))
                  IN [index EXCEPT !.elements =
                        SetOwn(got.map, ElementKey(heap, node),
                                    Append(got.values, node))]
             ELSE IF IsText(heap, node)
             THEN [index EXCEPT !.texts =
                     SetOwn(@, heap[node].textContent, node)]
             ELSE index
       IN IndexChildren(heap, Tail(nodes), next)

\* a variant that leaves a reused text node in the index
RECURSIVE BuildNewNodesKeepsText(_, _)
BuildNewNodesKeepsText(st, children) ==
  IF children = <<>> \/ st.w.raised THEN st
  ELSE LET child == Head(children)
           next ==
             IF IsObject(child)
             THEN LET key == VirtualKey(child)
                      got == getMapList(st.elements, key)
                  IN IF got.values # <<>>
                     THEN [st EXCEPT !.elements =
                                       SetOwn(got.map, key, Tail(got.values)),
                                     !.newNodes = Append(@, Head(got.values))]
                     ELSE LET made == createElement(st.w, child)
                          IN [st EXCEPT !.w = made.w,
                                        !.elements = got.map,
                                        !.newNodes = Append(@, made.node)]
             ELSE LET text == child.text
                  IN IF HasOwn(st.texts, text)
                     THEN [st EXCEPT !.newNodes = Append(@, GetOwn(st.texts, text))]
                     ELSE LET made == DocumentCreateTextNode(st.w, text)
                          IN [st EXCEPT !.w = made.w,
                                        !.newNodes = Append(@, made.node)]
       IN BuildNewNodesKeepsText(next, Tail(children))

\* "Build the list of new children": st = [w, elements, texts, newNodes]
RECURSIVE BuildNewNodes(_, _)
BuildNewNodes(st, children) ==
  IF children = <<>> \/ st.w.raised THEN st
  ELSE LET child == Head(children)
           next ==
             IF IsObject(child)
             THEN LET key == VirtualKey(child)
                      got == getMapList(st.elements, key)
                  IN IF got.values # <<>>
                     THEN \* shift() hands out the first queued element
                          [st EXCEPT !.elements =
                                       SetOwn(got.map, key, Tail(got.values)),
                                     !.newNodes = Append(@, Head(got.values))]
                     ELSE LET made == createElement(st.w, child)
                          IN [st EXCEPT !.w = made.w,
                                        !.elements = got.map,
                                        !.newNodes = Append(@, made.node)]
             ELSE LET text == child.text
                  IN IF HasOwn(st.texts, text)
                     THEN [st EXCEPT !.newNodes = Append(@, GetOwn(st.texts, text)),
                                     !.texts = DeleteProperty(@, text)]
                     ELSE LET made == DocumentCreateTextNode(st.w, text)
                          IN [st EXCEPT !.w = made.w,
                                        !.newNodes = Append(@, made.node)]
       IN BuildNewNodes(next, Tail(children))

\* the nodes of a sequence of lists, flattened in order
RECURSIVE Flatten(_)
Flatten(lists) ==
  IF lists = <<>> THEN <<>> ELSE Head(lists).value \o Flatten(Tail(lists))

\* "Remove elements no longer present"
RECURSIVE RemoveChildren(_, _, _)
RemoveChildren(w, parent, nodes) ==
  IF nodes = <<>> \/ w.raised THEN w
  ELSE The({ RemoveChildren(w1, parent, Tail(nodes)) :
             w1 \in { RemoveChild(w, parent, Head(nodes)) } })

\* a variant that repositions every child without looking at its next sibling
RECURSIVE PlaceNodesAlways(_, _, _, _, _)
PlaceNodesAlways(w, parent, newNodes, i, hasMoveBefore) ==
  IF i < 1 \/ w.raised THEN w
  ELSE LET node == newNodes[i]
           nextSibling == IF i + 1 <= Len(newNodes) THEN newNodes[i + 1] ELSE NULL
           w1 == IF ParentNode(w.heap, node) = parent
                 THEN IF hasMoveBefore
                      THEN MoveBefore(w, parent, node, nextSibling)
                      ELSE InsertBefore(w, parent, node, nextSibling)
                 ELSE InsertBefore(w, parent, node, nextSibling)
       IN PlaceNodesAlways(w1, parent, newNodes, i - 1, hasMoveBefore)

\* a variant that never uses moveBefore
RECURSIVE PlaceNodesInsertOnly(_, _, _, _, _)
PlaceNodesInsertOnly(w, parent, newNodes, i, hasMoveBefore) ==
  IF i < 1 \/ w.raised THEN w
  ELSE LET node == newNodes[i]
           nextSibling == IF i + 1 <= Len(newNodes) THEN newNodes[i + 1] ELSE NULL
           w1 == IF ParentNode(w.heap, node) = parent
                 THEN IF NextSibling(w.heap, node) # nextSibling
                      THEN InsertBefore(w, parent, node, nextSibling)
                      ELSE w
                 ELSE InsertBefore(w, parent, node, nextSibling)
       IN PlaceNodesInsertOnly(w1, parent, newNodes, i - 1, hasMoveBefore)

\* a variant that only inserts the nodes that are not yet children
RECURSIVE PlaceNodesNewOnly(_, _, _, _, _)
PlaceNodesNewOnly(w, parent, newNodes, i, hasMoveBefore) ==
  IF i < 1 \/ w.raised THEN w
  ELSE LET node == newNodes[i]
           nextSibling == IF i + 1 <= Len(newNodes) THEN newNodes[i + 1] ELSE NULL
           w1 == IF ParentNode(w.heap, node) = parent
                 THEN w
                 ELSE InsertBefore(w, parent, node, nextSibling)
       IN PlaceNodesNewOnly(w1, parent, newNodes, i - 1, hasMoveBefore)

\* "Insert new nodes and move old ones to the right place", from index i down
RECURSIVE PlaceNodes(_, _, _, _, _)
PlaceNodes(w, parent, newNodes, i, hasMoveBefore) ==
  IF i < 1 \/ w.raised THEN w
  ELSE LET node == newNodes[i]
           nextSibling == IF i + 1 <= Len(newNodes) THEN newNodes[i + 1] ELSE NULL
           w1 == IF ParentNode(w.heap, node) = parent
                 THEN IF NextSibling(w.heap, node) # nextSibling
                      THEN IF hasMoveBefore
                           THEN MoveBefore(w, parent, node, nextSibling)
                           ELSE InsertBefore(w, parent, node, nextSibling)
                      ELSE w
                 ELSE InsertBefore(w, parent, node, nextSibling)
       IN PlaceNodes(w1, parent, newNodes, i - 1, hasMoveBefore)

\* the new node list updateChildren computes, with the world and the leftovers
NewNodes(w, parent, childrenOpt) ==
  LET children == IF IsDefined(childrenOpt) THEN ValueOf(childrenOpt) ELSE <<>>
      index == IndexChildren(w.heap, w.heap[parent].childNodes,
                             [elements |-> <<>>, texts |-> <<>>])
  IN BuildNewNodes([w |-> w, elements |-> index.elements,
                    texts |-> index.texts, newNodes |-> <<>>], children)

\* remove the indexed elements and texts no child claimed (lines 288-295)
RemoveLeftovers(built, parent) ==
  The({ RemoveChildren(w1, parent,
          [i \in DOMAIN built.texts |-> built.texts[i].value]) :
        w1 \in { RemoveChildren(built.w, parent, Flatten(built.elements)) } })

\* put the new nodes in order, back to front (lines 297-311)
PlaceBuilt(built, parent, hasMoveBefore) ==
  The({ PlaceNodes(w2, parent, built.newNodes, Len(built.newNodes), hasMoveBefore) :
        w2 \in { RemoveLeftovers(built, parent) } })

updateChildren(w, parent, childrenOpt, hasMoveBefore) ==
  The({ PlaceBuilt(built, parent, hasMoveBefore) :
        built \in { NewNodes(w, parent, childrenOpt) } })

\* ------------------------------------------------------------ updateElement
updateElement(w, element, virtual, hasMoveBefore) ==
  The({ updateChildren(w2, element, virtual.children, hasMoveBefore) :
          w2 \in { updateListeners(w1, element, Listeners(virtual)) :
                   w1 \in { updateAttributes(w, element, virtual.attributes) } } })

\* ------------------------------------------------------------------ inputs
Virtual(tagName, attributes, listeners, children) ==
  [tagName |-> tagName, attributes |-> attributes,
   listeners |-> listeners, children |-> children]
\* a description that names the namespace of its element
VirtualNS(namespaceURI, tagName, attributes, listeners, children) ==
  [tagName |-> tagName, namespaceURI |-> Some(namespaceURI),
   attributes |-> attributes, listeners |-> listeners, children |-> children]

\* the order in which an object lists its names: the integer-like names
\* first and ascending, the others after them
InObjectOrder(obj) ==
  \A i, j \in DOMAIN obj :
    i < j => IF IsArrayIndex(obj[j].name)
             THEN IsArrayIndex(obj[i].name) /\ IndexLess(obj[i].name, obj[j].name)
             ELSE TRUE
\* the objects with at most maxLen entries drawn from entries, names distinct
ObjectsOver(entries, maxLen) ==
  UNION {{obj \in [1..k -> entries] :
            /\ \A i, j \in 1..k : i # j => obj[i].name # obj[j].name
            /\ InObjectOrder(obj)} :
         k \in 0..maxLen}
\* an optional value drawn from set
Optional(set) == {Undefined} \cup {Some(v) : v \in set}

\* attribute mappings over class, id and onClick (the attribute createVirtual
\* makes of a string prop onClick); the empty string is a legal value
AttributeEntries ==
  {[name |-> "class", value |-> v] : v \in {"", "foo", "bar"}}
  \cup {[name |-> "id", value |-> "x"], [name |-> "onClick", value |-> "foo"]}
AttributeMaps == ObjectsOver(AttributeEntries, MaxAttributes)

\* listener mappings over click and the integer-like event name 1; a
\* listener is a reference
ListenerEntries ==
  {[name |-> "click", value |-> [listener |-> h, options |-> o]] :
     h \in {"handler1", "handler2"}, o \in {"undefined", "capture"}}
  \cup {[name |-> "1", value |-> [listener |-> "handler1", options |-> "undefined"]]}
ListenerMaps == ObjectsOver(ListenerEntries, MaxListeners)

\* listener mappings that hold the name __proto__ as an own entry, as an
\* object written with a computed key or read by JSON.parse does, next to
\* click and to the event name listener, which is the name of a property of
\* the record that becomes the prototype
InheritedEntries ==
  {[name |-> "__proto__", value |-> [listener |-> h, options |-> "undefined"]] :
     h \in {"handler1", "handler2", "handlerObject2"}}
  \cup {[name |-> "click", value |-> [listener |-> "handler1", options |-> "undefined"]],
        [name |-> "listener", value |-> [listener |-> "handler2", options |-> "undefined"]]}
InheritedMaps == ObjectsOver(InheritedEntries, MaxListeners)

Text(s) == [text |-> s]
KeyOf(k) == Some(<<[name |-> KEY_ATTRIBUTE, value |-> k]>>)
ClassOf(c) == Some(<<[name |-> "class", value |-> c]>>)
OnClick(h) == Some(<<[name |-> "click", value |-> [listener |-> h, options |-> "undefined"]]>>)

\* the children a caller puts below the root
ChildPool ==
  { Text("a"),
    Virtual("span", Undefined, Undefined, Undefined),
    Virtual("SPAN", ClassOf("foo"), OnClick("handler1"), Some(<<Text("a")>>)),
    VirtualNS(SVG_NAMESPACE, "svg", Some(<<[name |-> "viewBox", value |-> "0"]>>),
              Undefined, Undefined) }
ChildLists == UNION {[1..k -> ChildPool] : k \in 0..MaxChildren}

RootTags == {"div", "DIV", "span"}

\* one description that sets attributes, listeners and children together
FullDescription ==
  Virtual("div", ClassOf("bar"), OnClick("handler2"),
          Some(<<Virtual("span", Undefined, Undefined, Undefined)>>))

\* descriptions with a name the DOM refuses: an attribute without a name
\* after a valid one and before a listener, and a tag name with a space
RefusedAttribute ==
  Virtual("div", Some(<<[name |-> "class", value |-> "bar"],
                        [name |-> "", value |-> "x"]>>),
          OnClick("handler2"), Undefined)
RefusedTag == Virtual("a b", Undefined, Undefined, Undefined)
\* a valid child followed by a child the DOM refuses
RefusedChild ==
  Virtual("div", Undefined, Undefined, Some(<<Text("a"), RefusedTag>>))

\* descriptions that vary the tag, the attributes and the listeners of the root
Descriptions ==
  {Virtual(t, Undefined, Undefined, Undefined) : t \in RootTags}
  \cup {Virtual("div", a, Undefined, Undefined) : a \in Optional(AttributeMaps)}
  \cup {Virtual("div", Undefined, l, Undefined) : l \in Optional(ListenerMaps)}
  \cup {FullDescription, RefusedAttribute, RefusedTag}

\* descriptions whose listeners involve the name __proto__: as an own entry,
\* and as the prop on__proto__ handed to createVirtual
InheritedDescriptions ==
  {Virtual("div", Undefined, l, Undefined) : l \in Optional(InheritedMaps)}
  \cup {createVirtual("div", Some(<<[name |-> "on__proto__", value |-> v]>>), <<>>) :
          v \in {[typeof |-> "function", ref |-> "handler1", source |-> "() => 1"],
                 [typeof |-> "object", has |-> {"handleEvent", "listener"},
                  ref |-> "handlerObject2"]}}

\* descriptions that vary the children of the root
TreeDescriptions ==
  {Virtual("div", Undefined, Undefined, c) : c \in Optional(ChildLists)}
  \cup {FullDescription, RefusedChild}

\* children that carry keys, next to unkeyed ones of two tags
Keyed(tagName, k) == Virtual(tagName, KeyOf(k), Undefined, Undefined)
KeyedPool ==
  { Keyed("span", "1"), Keyed("span", "2"), Keyed("span", "3"), Keyed("span", ""),
    Virtual("span", Undefined, Undefined, Undefined),
    Virtual("h1", Undefined, Undefined, Undefined) }
KeyedLists == UNION {[1..k -> KeyedPool] : k \in 0..MaxChildren}
\* descriptions that vary the keys and the order of the children of the root
\* one longer list of children that share an index key
ThreeSpans ==
  Virtual("div", Undefined, Undefined,
          Some([i \in 1..3 |-> Virtual("span", Undefined, Undefined, Undefined)]))
KeyedDescriptions ==
  {Virtual("div", Undefined, Undefined, Some(c)) : c \in KeyedLists}
  \cup {ThreeSpans}

\* prop values: strings, a function, a handler object, a {listener, options}
\* record, an object that is none of these, and undefined
Str(s) == [typeof |-> "string", string |-> s]
Fn(f, source) == [typeof |-> "function", ref |-> f, source |-> source]
NullValue == [typeof |-> "object", null |-> TRUE, has |-> {}]
HandlerObject == [typeof |-> "object", has |-> {"handleEvent"}, ref |-> "handlerObject"]
ListenerRecord(h, o) ==
  [typeof |-> "object", has |-> {"listener", "options"},
   record |-> [listener |-> h, options |-> o]]
PlainObject == [typeof |-> "object", has |-> {}]
UndefinedValue == [typeof |-> "undefined"]

PropNames == {"onClick", "onMouseEnter", "on1", "on__proto__", "once", "class"}
PropValues ==
  {Str("foo"), Str(""), Fn("handler1", "() => 1"), HandlerObject,
   ListenerRecord("handler2", "capture"), PlainObject, NullValue, UndefinedValue}
PropEntries == {[name |-> n, value |-> v] : n \in PropNames, v \in PropValues}
PropsMaps == ObjectsOver(PropEntries, MaxProps)
\* the rest arguments of createVirtual
VirtualChildren ==
  { <<>>, <<Text("a")>>,
    <<Text("b"), Virtual("span", Undefined, Undefined, Undefined), Text("a")>> }

\* the descriptions a caller writes as objects and keeps: one with attributes,
\* listeners, a text and a nested description that has listeners of its own,
\* one with another click listener, one with a child and no listeners, and one
\* that lists __proto__ as an own name before the name listener
SharedDescriptions ==
  { Virtual("div", ClassOf("foo"), OnClick("handler1"),
            Some(<<Text("a"),
                   Virtual("span", KeyOf("1"), OnClick("handler2"), Undefined)>>)),
    Virtual("div", Undefined, OnClick("handler2"), Undefined),
    Virtual("div", Undefined, Undefined,
            Some(<<Virtual("span", Undefined, OnClick("handler1"), Undefined)>>)),
    Virtual("div", Undefined,
            Some(<<[name |-> "__proto__",
                    value |-> [listener |-> "handlerObject2",
                               options |-> "undefined"]],
                   [name |-> "listener",
                    value |-> [listener |-> "handler2", options |-> "undefined"]]>>),
            Undefined) }

\* -------------------------------------------------- descriptions by reference
\* A description, its attribute mapping, its listener mapping, each
\* {listener, options} record and its children array are objects the caller
\* owns and the program receives by reference; the registry of an element is
\* an object the program makes.  The store maps an object identity to the
\* object:
\*   a description  [tagName, attributes, listeners, children], each of the
\*                  three the optional identity of a mapping or an array;
\*   a mapping      [own, proto], the value of an own entry a string (in
\*                  attributes) or the identity of a record (in listeners and
\*                  in a registry);
\*   a record       [listener, options];
\*   an array       [items], an item a string [text] or the identity of a
\*                  description [ref].
\* In this part a world carries the store as w.objects next to heap, log and
\* raised, and the registered field of an element holds the identity of its
\* registry object.  The arrays and maps a call makes for itself
\* (Object.entries, namesToRemove, elements, texts, newNodes) hold names and
\* nodes only and stay values.

\* the next unused object identity
NewObjectId(objs) == CHOOSE i \in 1..(Cardinality(DOMAIN objs) + 1) :
                       /\ i \notin DOMAIN objs
                       /\ \A j \in 1..(i - 1) : j \in DOMAIN objs

\* a new object in the store: returns [objects, ref]
Allocate(objs, object) ==
  [objects |-> (NewObjectId(objs) :> object) @@ objs, ref |-> NewObjectId(objs)]

\* the caller writes {name: {listener, options}, ...}: one object per record,
\* then the mapping that holds them
RECURSIVE AllocateListeners(_, _, _)
AllocateListeners(objs, listeners, mapping) ==
  IF listeners = <<>> THEN Allocate(objs, ObjectWith(mapping, Undefined))
  ELSE The({ AllocateListeners(made.objects, Tail(listeners),
                               Append(mapping, [name |-> Head(listeners).name,
                                                value |-> made.ref])) :
             made \in {Allocate(objs, Head(listeners).value)} })

\* a field the description leaves out is no object
NoObject(objs) == [objects |-> objs, ref |-> NULL]
\* the field of a description that holds what was allocated for it
FieldOf(made) == IF made.ref = NULL THEN Undefined ELSE Some(made.ref)

\* the caller writes a description: the objects of its fields, then the
\* description that holds them
RECURSIVE AllocateVirtual(_, _)
RECURSIVE AllocateChildren(_, _, _)
\* the caller writes [child, ...]: each nested description, then the array
AllocateChildren(objs, children, items) ==
  IF children = <<>> THEN Allocate(objs, [items |-> items])
  ELSE IF IsObject(Head(children))
  THEN The({ AllocateChildren(made.objects, Tail(children),
                              Append(items, [ref |-> made.ref])) :
             made \in {AllocateVirtual(objs, Head(children))} })
  ELSE AllocateChildren(objs, Tail(children), Append(items, Head(children)))

AllocateVirtual(objs, virtual) ==
  The({ The({ The({ Allocate(c.objects,
                             [virtual EXCEPT !.attributes = FieldOf(a),
                                             !.listeners = FieldOf(l),
                                             !.children = FieldOf(c)]) :
                    c \in { IF IsDefined(virtual.children)
                            THEN AllocateChildren(l.objects,
                                                  ValueOf(virtual.children), <<>>)
                            ELSE NoObject(l.objects) } }) :
              l \in { IF IsDefined(virtual.listeners)
                      THEN AllocateListeners(a.objects,
                                             ValueOf(virtual.listeners), <<>>)
                      ELSE NoObject(a.objects) } }) :
        a \in { IF IsDefined(virtual.attributes)
                THEN Allocate(objs, ObjectWith(ValueOf(virtual.attributes),
                                               Undefined))
                ELSE NoObject(objs) } })

\* the world at the start of a call on the nodes h and the store objs
WorldAt(h, objs) ==
  [heap |-> h, log |-> <<>>, raised |-> FALSE, objects |-> objs]

\* typeof child === "object" for an item of a children array
IsReference(item) == "ref" \in DOMAIN item
\* the own entries of the mapping behind an optional reference
EntriesAt(objs, mapping) ==
  IF IsDefined(mapping) THEN Some(objs[ValueOf(mapping)].own) ELSE Undefined
\* listeners: Listeners = {}: the mapping behind an optional reference
MappingAt(objs, listeners) ==
  IF IsDefined(listeners) THEN objs[ValueOf(listeners)] ELSE EmptyObject

\* element[REGISTERED_LISTENERS] ??= {}: a new object unless the element has
\* one
RegistryOf(w, element) ==
  IF IsDefined(w.heap[element].registered) THEN w
  ELSE The({ [w EXCEPT !.objects = made.objects,
                       !.heap[element].registered = Some(made.ref)] :
             made \in {Allocate(w.objects, EmptyObject)} })
\* element[REGISTERED_LISTENERS], once it is an object
RegisteredAt(w, element) == ValueOf(w.heap[element].registered)

\* createElement, "Add event listeners": attach each entry and write its
\* record, by reference, into the registry
RECURSIVE createElementListenersAt(_, _, _)
createElementListenersAt(w, element, entries) ==
  IF entries = <<>> \/ w.raised THEN w
  ELSE LET name == Head(entries).name
           value == Head(entries).value
       IN The({ createElementListenersAt(w3, element, Tail(entries)) :
                w3 \in { [w2 EXCEPT !.objects[RegisteredAt(w2, element)] =
                            SetProperty(@, name, value, TRUE)] :
                         w2 \in { RegistryOf(w1, element) :
                                  w1 \in { AddEventListener(
                                             w, element, name,
                                             w.objects[value].listener,
                                             w.objects[value].options) } } } })

\* createElement on a reference: returns [w, node]
RECURSIVE createElementAt(_, _)
RECURSIVE createElementChildrenAt(_, _, _, _)
\* createElement, "Add child nodes": for (const child of children) reads the
\* array item by item
createElementChildrenAt(w, element, children, i) ==
  IF w.raised \/ i > Len(w.objects[children].items) THEN w
  ELSE LET child == w.objects[children].items[i]
       IN The({ createElementChildrenAt(w1, element, children, i + 1) :
                w1 \in { AppendChild(made.w, element, made.node) :
                         made \in { IF IsReference(child)
                                    THEN createElementAt(w, child.ref)
                                    ELSE DocumentCreateTextNode(w, child.text) } } })

\* the steps of createElement after the element was made, on the fields the
\* description had when the call destructured it
createElementFillAt(made, virtual) ==
  The({ [w |-> IF IsDefined(virtual.children)
               THEN createElementChildrenAt(w2, made.node,
                                            ValueOf(virtual.children), 1)
               ELSE w2,
         node |-> made.node] :
        w2 \in { IF IsDefined(virtual.listeners)
                 THEN createElementListenersAt(
                        w1, made.node, w1.objects[ValueOf(virtual.listeners)].own)
                 ELSE w1 :
                 w1 \in { IF IsDefined(virtual.attributes)
                          THEN createElementAttributes(
                                 made.w, made.node,
                                 made.w.objects[ValueOf(virtual.attributes)].own)
                          ELSE made.w } } })

createElementAt(w, virtual) ==
  The({ createElementFillAt(made, w.objects[virtual]) :
        made \in { IF NamespaceURI(w.objects[virtual]) # ""
                   THEN DocumentCreateElementNS(w, NamespaceURI(w.objects[virtual]),
                                                w.objects[virtual].tagName)
                   ELSE DocumentCreateElement(w, w.objects[virtual].tagName) } })

\* obj[name]?.listener !== value.listener on references: obj is a mapping of
\* record identities, value the identity of a record
ListenerDiffersAt(objs, obj, name, value) ==
  (IF IsDefined(RecordAt(obj, name))
   THEN Some(objs[ValueOf(RecordAt(obj, name))].listener)
   ELSE IF name = "listener" /\ IsDefined(obj.proto)
   THEN PropertyOf(objs[ValueOf(obj.proto)].listener, "listener")
   ELSE Undefined) # Some(objs[value].listener)

\* a variant of the first loop that deletes the entry of the description
RECURSIVE updateListenersRemoveAtDescription(_, _, _, _)
updateListenersRemoveAtDescription(w, element, entries, listeners) ==
  IF entries = <<>> \/ w.raised THEN w
  ELSE LET name == Head(entries).name
           value == Head(entries).value
       IN The({ updateListenersRemoveAtDescription(w1, element, Tail(entries),
                                                   listeners) :
                w1 \in { IF ListenerDiffersAt(w.objects,
                                              MappingAt(w.objects, listeners),
                                              name, value)
                         THEN The({ IF IsDefined(listeners)
                                    THEN [w0 EXCEPT !.objects[ValueOf(listeners)] =
                                            Deleted(@, name)]
                                    ELSE w0 :
                                    w0 \in { RemoveEventListener(
                                               w, element, name,
                                               w.objects[value].listener,
                                               w.objects[value].options) } })
                         ELSE w } })

\* updateListeners, first loop, over the entries the registry had on entry:
\* delete registeredListeners[name]
RECURSIVE updateListenersRemoveAt(_, _, _, _)
updateListenersRemoveAt(w, element, entries, listeners) ==
  IF entries = <<>> \/ w.raised THEN w
  ELSE LET name == Head(entries).name
           value == Head(entries).value
       IN The({ updateListenersRemoveAt(w1, element, Tail(entries), listeners) :
                w1 \in { IF ListenerDiffersAt(w.objects,
                                              MappingAt(w.objects, listeners),
                                              name, value)
                         THEN The({ [w0 EXCEPT !.objects[RegisteredAt(w0, element)] =
                                       Deleted(@, name)] :
                                    w0 \in { RemoveEventListener(
                                               w, element, name,
                                               w.objects[value].listener,
                                               w.objects[value].options) } })
                         ELSE w } })

\* updateListeners, second loop, over the entries of the new mapping:
\* registeredListeners[name] = value
RECURSIVE updateListenersAddAt(_, _, _)
updateListenersAddAt(w, element, entries) ==
  IF entries = <<>> \/ w.raised THEN w
  ELSE LET name == Head(entries).name
           value == Head(entries).value
       IN The({ updateListenersAddAt(w1, element, Tail(entries)) :
                w1 \in { IF ListenerDiffersAt(w.objects,
                                              w.objects[RegisteredAt(w, element)],
                                              name, value)
                         THEN The({ [w0 EXCEPT !.objects[RegisteredAt(w0, element)] =
                                       SetProperty(@, name, value, TRUE)] :
                                    w0 \in { AddEventListener(
                                               w, element, name,
                                               w.objects[value].listener,
                                               w.objects[value].options) } })
                         ELSE w } })

\* updateListeners on references; listeners is an optional reference
updateListenersAt(w, element, listeners) ==
  IF w.raised THEN w
  ELSE The({ updateListenersAddAt(w1, element,
                                  MappingAt(w1.objects, listeners).own) :
             w1 \in { updateListenersRemoveAt(
                        w0, element,
                        w0.objects[RegisteredAt(w0, element)].own, listeners) :
                      w0 \in { RegistryOf(w, element) } } })

\* the index key of a child description, read through its references
VirtualKeyAt(objs, child) ==
  VirtualKey([tagName |-> objs[child].tagName,
              attributes |-> EntriesAt(objs, objs[child].attributes)])

\* "Build the list of new children" on references: st = [w, elements, texts,
\* newNodes], the array read item by item
RECURSIVE BuildNewNodesAt(_, _, _)
BuildNewNodesAt(st, children, i) ==
  IF st.w.raised \/ i > Len(st.w.objects[children].items) THEN st
  ELSE LET child == st.w.objects[children].items[i]
           next ==
             IF IsReference(child)
             THEN LET key == VirtualKeyAt(st.w.objects, child.ref)
                      got == getMapList(st.elements, key)
                  IN IF got.values # <<>>
                     THEN [st EXCEPT !.elements =
                                       SetOwn(got.map, key, Tail(got.values)),
                                     !.newNodes = Append(@, Head(got.values))]
                     ELSE LET made == createElementAt(st.w, child.ref)
                          IN [st EXCEPT !.w = made.w,
                                        !.elements = got.map,
                                        !.newNodes = Append(@, made.node)]
             ELSE LET text == child.text
                  IN IF HasOwn(st.texts, text)
                     THEN [st EXCEPT !.newNodes = Append(@, GetOwn(st.texts, text)),
                                     !.texts = DeleteProperty(@, text)]
                     ELSE LET made == DocumentCreateTextNode(st.w, text)
                          IN [st EXCEPT !.w = made.w,
                                        !.newNodes = Append(@, made.node)]
       IN BuildNewNodesAt(next, children, i + 1)

\* the new node list updateChildren computes; children is an optional
\* reference, and children = [] makes an empty array of its own
NewNodesAt(w, parent, children) ==
  LET index == IndexChildren(w.heap, w.heap[parent].childNodes,
                             [elements |-> <<>>, texts |-> <<>>])
      start == [w |-> w, elements |-> index.elements,
                texts |-> index.texts, newNodes |-> <<>>]
  IN IF IsDefined(children)
     THEN BuildNewNodesAt(start, ValueOf(children), 1)
     ELSE start

updateChildrenAt(w, parent, children, hasMoveBefore) ==
  The({ PlaceBuilt(built, parent, hasMoveBefore) :
        built \in { NewNodesAt(w, parent, children) } })

\* updateElement on a reference, on the fields the description had when the
\* call destructured it
updateElementAt(w, element, virtual, hasMoveBefore) ==
  The({ updateChildrenAt(w2, element, w.objects[virtual].children,
                         hasMoveBefore) :
        w2 \in { updateListenersAt(w1, element, w.objects[virtual].listeners) :
                 w1 \in { updateAttributes(
                            w, element,
                            EntriesAt(w.objects, w.objects[virtual].attributes)) } } })

\* the description behind a reference as a value, for the record of the call
RECURSIVE DescriptionAt(_, _)
DescriptionAt(objs, virtual) ==
  LET listeners == EntriesAt(objs, objs[virtual].listeners)
      items == IF IsDefined(objs[virtual].children)
               THEN objs[ValueOf(objs[virtual].children)].items ELSE <<>>
  IN [objs[virtual] EXCEPT
        !.attributes = EntriesAt(objs, @),
        !.listeners =
          IF IsDefined(@)
          THEN Some([i \in DOMAIN ValueOf(listeners) |->
                       [name |-> ValueOf(listeners)[i].name,
                        value |-> objs[ValueOf(listeners)[i].value]]])
          ELSE Undefined,
        !.children =
          IF IsDefined(@)
          THEN Some([i \in DOMAIN items |->
                       IF IsReference(items[i])
                       THEN DescriptionAt(objs, items[i].ref)
                       ELSE items[i]])
          ELSE Undefined]

\* the descriptions among the objects refs
DescriptionsAt(objs, refs) == {o \in refs : "tagName" \in DOMAIN objs[o]}
\* the registry objects of the elements of h
Registries(h) ==
  {ValueOf(h[n].registered) :
     n \in {m \in DOMAIN h : IsElement(h, m) /\ IsDefined(h[m].registered)}}
\* Between calls the caller holds what it wrote and the root: the store keeps
\* the objects of keep and drops the registries of the nodes that are gone.
Collect(objs, keep) == [o \in DOMAIN objs \cap keep |-> objs[o]]

\* ------------------------------------------------ the variant src/src/dom.ts
\* The older variant of the program checks the node it is given before it
\* updates it.  Its listeners are handlers, not {listener, options} records,
\* it lists the names of an object with Object.getOwnPropertyNames, it pairs
\* the children by key attribute and by tag, and it updates a child it reuses.
\* The names of its functions carry the suffix Dom here.

\* Node.ELEMENT_NODE and Node.TEXT_NODE
ELEMENT_NODE == 1
TEXT_NODE == 3
\* node.nodeType
NodeType(heap, n) == IF heap[n].nodeType = "element" THEN ELEMENT_NODE ELSE TEXT_NODE

\* throw Error(message): the log records the error the program raised itself
Throw(w, message) ==
  IF w.raised THEN w
  ELSE [w EXCEPT !.raised = TRUE, !.log = Append(@, <<"throw", message>>)]
\* `Expected element with type ${Node.ELEMENT_NODE}, but got ${element.nodeType}.`
NotAnElement(heap, element) ==
  "Expected element with type " \o ToString(ELEMENT_NODE) \o ", but got "
    \o ToString(NodeType(heap, element)) \o "."
\* `Expected element with tag name "${tagName}", but got "${element.tagName}".`
TagMismatch(heap, element, tagName) ==
  "Expected element with tag name \"" \o tagName \o "\", but got \""
    \o heap[element].tagName \o "\"."

\* obj[name] on a mapping of handlers, as far as the value is a handler: the
\* own entry; under the name __proto__ the handler that replaced the
\* prototype; under any other name the property of that name obj inherits
\* from this handler.  The members of Object.prototype are no handlers.
HandlerAt(obj, name) ==
  IF HasOwn(obj.own, name) THEN Some(GetOwn(obj.own, name))
  ELSE IF name = "__proto__" THEN obj.proto
  ELSE IF IsDefined(obj.proto) THEN PropertyOf(ValueOf(obj.proto), name)
  ELSE Undefined

\* the listeners object of a description: its own entries below Object.prototype
ListenersDom(virtual) ==
  IF IsDefined(virtual.listeners)
  THEN ObjectWith(ValueOf(virtual.listeners), Undefined)
  ELSE EmptyObject

\* (element[REGISTERED_LISTENERS] ??= {})[name] = listener; a handler is an
\* object
RegisterDom(w, element, name, listener) ==
  IF w.raised THEN w
  ELSE [w EXCEPT !.heap[element].registered =
          Some(SetProperty(Registry(w.heap, element), name, listener, TRUE))]

\* createElement, "Add event listeners": attach and record the handler of each
\* own name
RECURSIVE createElementListenersDom(_, _, _)
createElementListenersDom(w, element, listeners) ==
  IF listeners = <<>> \/ w.raised THEN w
  ELSE LET name == Head(listeners).name
           listener == Head(listeners).value
       IN The({ createElementListenersDom(w2, element, Tail(listeners)) :
                w2 \in { RegisterDom(w1, element, name, listener) :
                         w1 \in { AddEventListener(w, element, name, listener,
                                                   "undefined") } } })

\* child instanceof Node: an item that is a live node; the children of a
\* description are strings and descriptions
IsNode(child) == "node" \in DOMAIN child

\* createElement of the variant: returns [w, node]
RECURSIVE createElementDom(_, _)
RECURSIVE createElementChildrenDom(_, _, _)
\* createElement, "Add child nodes"
createElementChildrenDom(w, element, children) ==
  IF children = <<>> \/ w.raised THEN w
  ELSE LET child == Head(children)
       IN The({ createElementChildrenDom(w1, element, Tail(children)) :
                w1 \in { AppendChild(made.w, element, made.node) :
                         made \in { IF IsNode(child)
                                    THEN [w |-> w, node |-> child.node]
                                    ELSE IF IsObject(child)
                                    THEN createElementDom(w, child)
                                    ELSE DocumentCreateTextNode(w, child.text) } } })

\* the steps of createElement after the element was made
createElementFillDom(made, virtual) ==
  The({ [w |-> IF IsDefined(virtual.children)
               THEN createElementChildrenDom(w2, made.node,
                                             ValueOf(virtual.children))
               ELSE w2,
         node |-> made.node] :
        w2 \in { IF IsDefined(virtual.listeners)
                 THEN createElementListenersDom(w1, made.node,
                                                ValueOf(virtual.listeners))
                 ELSE w1 :
                 w1 \in { IF IsDefined(virtual.attributes)
                          THEN createElementAttributes(made.w, made.node,
                                                       ValueOf(virtual.attributes))
                          ELSE made.w } } })

createElementDom(w, virtual) ==
  The({ createElementFillDom(made, virtual) :
        made \in { IF NamespaceURI(virtual) # ""
                   THEN DocumentCreateElementNS(w, NamespaceURI(virtual),
                                                virtual.tagName)
                   ELSE DocumentCreateElement(w, virtual.tagName) } })

\* updateListeners, first loop, over the own names the registry had on entry:
\* registeredListeners[name] !== listeners[name]
RECURSIVE updateListenersRemoveDom(_, _, _, _)
updateListenersRemoveDom(w, element, names, listeners) ==
  IF names = <<>> \/ w.raised THEN w
  ELSE LET name == Head(names)
           registered == HandlerAt(Registry(w.heap, element), name)
       IN The({ updateListenersRemoveDom(w1, element, Tail(names), listeners) :
                w1 \in { IF registered # HandlerAt(listeners, name)
                         THEN The({ [w0 EXCEPT !.heap[element].registered =
                                       Some(Deleted(ValueOf(@), name))] :
                                    w0 \in { RemoveEventListener(
                                               w, element, name,
                                               ValueOf(registered),
                                               "undefined") } })
                         ELSE w } })

\* updateListeners, second loop, over the own names of the new mapping
RECURSIVE updateListenersAddDom(_, _, _, _)
updateListenersAddDom(w, element, names, listeners) ==
  IF names = <<>> \/ w.raised THEN w
  ELSE LET name == Head(names)
           listener == HandlerAt(listeners, name)
       IN The({ updateListenersAddDom(w1, element, Tail(names), listeners) :
                w1 \in { IF HandlerAt(Registry(w.heap, element), name) # listener
                         THEN The({ RegisterDom(w0, element, name,
                                                ValueOf(listener)) :
                                    w0 \in { AddEventListener(
                                               w, element, name,
                                               ValueOf(listener),
                                               "undefined") } })
                         ELSE w } })

\* Object.getOwnPropertyNames(obj), for own entries
OwnPropertyNames(entries) == [i \in DOMAIN entries |-> entries[i].name]

\* updateListeners(element, listeners) of the variant; listeners is an object
updateListenersDom(w, element, listeners) ==
  The({ updateListenersAddDom(w1, element, OwnPropertyNames(listeners.own),
                              listeners) :
        w1 \in { updateListenersRemoveDom(
                   w0, element,
                   OwnPropertyNames(RegisteredListeners(w0.heap, element)),
                   listeners) :
                 w0 \in { IF w.raised THEN w
                          ELSE [w EXCEPT !.heap[element].registered =
                                  Some(Registry(w.heap, element))] } } })

\* "Index the old children": an element with a key attribute that is not
\* empty goes under its key, any other element into the list; a text that is
\* not empty goes under its text.  index = [keyedElements, otherElements,
\* textNodes]
RECURSIVE IndexChildrenDom(_, _, _)
IndexChildrenDom(heap, nodes, index) ==
  IF nodes = <<>> THEN index
  ELSE LET node == Head(nodes)
           key == GetAttribute(heap, node, KEY_ATTRIBUTE)
           next ==
             IF IsElement(heap, node)
             THEN IF IsDefined(key) /\ ValueOf(key) # ""
                  THEN [index EXCEPT !.keyedElements = SetOwn(@, ValueOf(key), node)]
                  ELSE [index EXCEPT !.otherElements = Append(@, node)]
             ELSE IF IsText(heap, node) /\ heap[node].textContent # ""
             THEN [index EXCEPT !.textNodes =
                     SetOwn(@, heap[node].textContent, node)]
             ELSE index
       IN IndexChildrenDom(heap, Tail(nodes), next)

\* otherElements.findIndex(tag equal), counted from 1; 0 when there is none
FindIndex(heap, otherElements, tagName) ==
  IF \E i \in DOMAIN otherElements :
       toLowerCase(heap[otherElements[i]].tagName) = toLowerCase(tagName)
  THEN CHOOSE i \in DOMAIN otherElements :
         /\ toLowerCase(heap[otherElements[i]].tagName) = toLowerCase(tagName)
         /\ \A j \in 1..(i - 1) :
              toLowerCase(heap[otherElements[j]].tagName) # toLowerCase(tagName)
  ELSE 0
\* otherElements.splice(index, 1)
Splice(list, index) == SubSeq(list, 1, index - 1) \o SubSeq(list, index + 1, Len(list))

\* updateElement of the variant
RECURSIVE updateElementDom(_, _, _, _)

\* one child description: the keyed element of its key and tag, else the
\* first other element of its tag, each updated, else a new element
BuildElementDom(st, child, hasMoveBefore) ==
  LET heap == st.w.heap
      keyed == HasTruthyKey(child)
      key == IF keyed THEN GetOwn(ValueOf(child.attributes), KEY_ATTRIBUTE) ELSE ""
      index == FindIndex(heap, st.otherElements, child.tagName)
  IN IF /\ keyed
        /\ HasOwn(st.keyedElements, key)
        /\ toLowerCase(heap[GetOwn(st.keyedElements, key)].tagName)
             = toLowerCase(child.tagName)
     THEN LET element == GetOwn(st.keyedElements, key)
          IN [st EXCEPT !.w = updateElementDom(st.w, element, child, hasMoveBefore),
                        !.keyedElements = DeleteProperty(@, key),
                        !.newNodes = Append(@, element)]
     ELSE IF index > 0
     THEN LET element == st.otherElements[index]
          IN [st EXCEPT !.w = updateElementDom(st.w, element, child, hasMoveBefore),
                        !.otherElements = Splice(@, index),
                        !.newNodes = Append(@, element)]
     ELSE LET made == createElementDom(st.w, child)
          IN [st EXCEPT !.w = made.w, !.newNodes = Append(@, made.node)]

\* "Build the list of new children": st = [w, keyedElements, otherElements,
\* textNodes, newNodes]
RECURSIVE BuildNewNodesDom(_, _, _)
BuildNewNodesDom(st, children, hasMoveBefore) ==
  IF children = <<>> \/ st.w.raised THEN st
  ELSE LET child == Head(children)
       IN The({ BuildNewNodesDom(next, Tail(children), hasMoveBefore) :
                next \in {
                  IF IsNode(child)
                  THEN [st EXCEPT !.newNodes = Append(@, child.node)]
                  ELSE IF IsObject(child)
                  THEN BuildElementDom(st, child, hasMoveBefore)
                  ELSE IF HasOwn(st.textNodes, child.text)
                  THEN [st EXCEPT !.newNodes =
                                    Append(@, GetOwn(st.textNodes, child.text)),
                                  !.textNodes = DeleteProperty(@, child.text)]
                  ELSE LET made == DocumentCreateTextNode(st.w, child.text)
                       IN [st EXCEPT !.w = made.w,
                                     !.newNodes = Append(@, made.node)] } })

\* the new node list updateChildren computes, with the world and what is left
\* of the index
NewNodesDom(w, parent, childrenOpt, hasMoveBefore) ==
  LET index == IndexChildrenDom(w.heap, w.heap[parent].childNodes,
                                [keyedElements |-> <<>>, otherElements |-> <<>>,
                                 textNodes |-> <<>>])
  IN BuildNewNodesDom([w |-> w, keyedElements |-> index.keyedElements,
                       otherElements |-> index.otherElements,
                       textNodes |-> index.textNodes, newNodes |-> <<>>],
                      IF IsDefined(childrenOpt) THEN ValueOf(childrenOpt) ELSE <<>>,
                      hasMoveBefore)

\* "Remove elements no longer present": what is left of the keyed elements,
\* of the other elements and of the texts, in this order
RemoveLeftoversDom(built, parent) ==
  RemoveChildren(built.w, parent,
                 [i \in DOMAIN built.keyedElements |-> built.keyedElements[i].value]
                   \o built.otherElements
                   \o [i \in DOMAIN built.textNodes |-> built.textNodes[i].value])

\* updateChildren of the variant; its last loop is the loop of PlaceNodes
updateChildrenDom(w, parent, childrenOpt, hasMoveBefore) ==
  IF w.raised THEN w
  ELSE The({ The({ PlaceNodes(w1, parent, built.newNodes, Len(built.newNodes),
                              hasMoveBefore) :
                   w1 \in { RemoveLeftoversDom(built, parent) } }) :
             built \in { NewNodesDom(w, parent, childrenOpt, hasMoveBefore) } })

\* a variant that checks the node after it updated the attributes
updateElementDomChecksLate(w, element, virtual, hasMoveBefore) ==
  IF w.raised THEN w
  ELSE IF NodeType(w.heap, element) # ELEMENT_NODE
  THEN Throw(w, NotAnElement(w.heap, element))
  ELSE The({ IF toLowerCase(w1.heap[element].tagName) # toLowerCase(virtual.tagName)
             THEN Throw(w1, TagMismatch(w1.heap, element, virtual.tagName))
             ELSE The({ updateChildrenDom(w2, element, virtual.children,
                                          hasMoveBefore) :
                        w2 \in { updateListenersDom(w1, element,
                                                    ListenersDom(virtual)) } }) :
             w1 \in { updateAttributes(w, element, virtual.attributes) } })
updateElementDom(w, element, virtual, hasMoveBefore) ==
  IF w.raised THEN w
  ELSE IF NodeType(w.heap, element) # ELEMENT_NODE
  THEN Throw(w, NotAnElement(w.heap, element))
  ELSE IF toLowerCase(w.heap[element].tagName) # toLowerCase(virtual.tagName)
  THEN Throw(w, TagMismatch(w.heap, element, virtual.tagName))
  ELSE The({ updateChildrenDom(w2, element, virtual.children, hasMoveBefore) :
             w2 \in { updateListenersDom(w1, element, ListenersDom(virtual)) :
                      w1 \in { updateAttributes(w, element, virtual.attributes) } } })


\* descriptions of the variant: a listener is a handler
DomOnClick(h) == Some(<<[name |-> "click", value |-> h]>>)
DomListenerMaps ==
  {Undefined, DomOnClick("handler1"), DomOnClick("handler2"),
   Some(<<[name |-> "__proto__", value |-> "handlerObject2"]>>),
   Some(<<[name |-> "listener", value |-> "handler2"]>>)}
\* child lists: texts, one of them empty, two tags under the same key, and
\* a child without a key that has a listener and a text of its own
DomChildLists ==
  { <<>>, <<Text("a")>>, <<Text("")>>, <<Keyed("span", "1")>>,
    <<Keyed("h1", "1")>>, <<Keyed("span", "1"), Text("a")>>,
    <<Text("a"), Keyed("span", "1")>>, <<Keyed("h1", "1"), Keyed("span", "1")>>,
    <<Virtual("span", Undefined, DomOnClick("handler1"), Some(<<Text("b")>>))>> }
\* descriptions that vary the attributes and the listeners of a div, one of
\* a span, and descriptions that vary the children of a div
DomDescriptions ==
  {Virtual("div", a, l, Undefined) :
     a \in {Undefined, ClassOf("foo")}, l \in DomListenerMaps}
  \cup {Virtual("span", ClassOf("foo"), Undefined, Undefined)}
  \cup {Virtual("div", Undefined, Undefined, Some(c)) : c \in DomChildLists}

\* ------------------------------------------------------------------- state
VARIABLES
  heap,           \* the live nodes: node identity -> node
  root,           \* the element the caller holds, NULL before createElement
  hasMoveBefore,  \* whether the host's nodes offer moveBefore
  call,           \* the last call: [op, virtual]
  log,            \* the primitive calls the last call made
  identity,       \* for each live node, the identity it had during the last call
  raised,         \* whether the last call threw
  given,          \* the arguments of the createVirtual call, once made
  described,      \* the description createVirtual returned, once made
  objects,        \* the objects passed by reference: object identity -> object
  written         \* the identities of the objects the caller wrote

vars == <<heap, root, hasMoveBefore, call, log, identity, raised, given, described,
          objects, written>>

\* the nodes of the subtree of n, in document order
RECURSIVE Preorder(_, _)
RECURSIVE PreorderAll(_, _)
PreorderAll(h, nodes) ==
  IF nodes = <<>> THEN <<>>
  ELSE Preorder(h, Head(nodes)) \o PreorderAll(h, Tail(nodes))
Preorder(h, n) ==
  <<n>> \o (IF IsElement(h, n) THEN PreorderAll(h, h[n].childNodes) ELSE <<>>)

\* Between calls only the caller's reference to the root holds a node, so the
\* nodes that left the tree are dropped and the others are named by their
\* place in document order; order[i] is the name node i had during the call.
Compact(h, order) ==
  LET name(n) == CHOOSE i \in DOMAIN order : order[i] = n
  IN [i \in DOMAIN order |->
        IF IsElement(h, order[i])
        THEN [h[order[i]] EXCEPT !.childNodes =
                [k \in DOMAIN @ |-> name(@[k])]]
        ELSE h[order[i]]]

\* the world at the start of a call on the nodes h
WorldOf(h) == [heap |-> h, log |-> <<>>, raised |-> FALSE]
EmptyWorld == WorldOf(<<>>)

Init ==
  /\ heap = <<>>
  /\ root = NULL
  /\ hasMoveBefore \in BOOLEAN
  /\ call = [op |-> "none", virtual |-> Virtual("div", Undefined, Undefined, Undefined)]
  /\ log = <<>>
  /\ identity = <<>>
  /\ raised = FALSE
  /\ given = Undefined
  /\ described = Undefined
  /\ objects = <<>>
  /\ written = {}

\* el = createElement(virtual); a call that throws assigns nothing, so the
\* caller keeps the element it held and the nodes the call made are lost
CreateElementCall(virtual) ==
    LET made == createElement(EmptyWorld, virtual)
        order == IF made.w.raised THEN [i \in DOMAIN heap |-> i]
                 ELSE Preorder(made.w.heap, made.node)
    IN /\ Len(order) <= MaxNodes
       /\ heap' = IF made.w.raised THEN heap ELSE Compact(made.w.heap, order)
       /\ root' = IF made.w.raised THEN root ELSE 1
       /\ call' = [op |-> "createElement", virtual |-> virtual]
       /\ log' = made.w.log
       /\ identity' = order
       /\ raised' = made.w.raised
       /\ UNCHANGED <<hasMoveBefore, given, described>>

CreateElementOf(descriptions) ==
  \E virtual \in descriptions :
    /\ CreateElementCall(virtual)
    /\ UNCHANGED <<objects, written>>

\* updateElement(el, virtual); a call that throws leaves what it did so far
UpdateElementCall(virtual) ==
       LET w == updateElement(WorldOf(heap), root, virtual,
                              hasMoveBefore)
           order == Preorder(w.heap, root)
       IN /\ Len(order) <= MaxNodes
          /\ heap' = Compact(w.heap, order)
          /\ call' = [op |-> "updateElement", virtual |-> virtual]
          /\ log' = w.log
          /\ identity' = order
          /\ raised' = w.raised
          /\ UNCHANGED <<root, hasMoveBefore, given, described>>

UpdateElementOf(descriptions) ==
  /\ root # NULL
  /\ \E virtual \in descriptions :
       /\ UpdateElementCall(virtual)
       /\ UNCHANGED <<objects, written>>

CreateElement == CreateElementOf(Descriptions)
UpdateElement == UpdateElementOf(Descriptions)

Next == CreateElement \/ UpdateElement

Spec == Init /\ [][Next]_vars

\* the same program, called with descriptions that vary the children
CreateTree == CreateElementOf(TreeDescriptions)
UpdateTree == UpdateElementOf(TreeDescriptions)

NextTree == CreateTree \/ UpdateTree

SpecTree == Init /\ [][NextTree]_vars

\* the same program, called with descriptions whose children carry keys
CreateKeyed == CreateElementOf(KeyedDescriptions)
UpdateKeyed == UpdateElementOf(KeyedDescriptions)

NextKeyed == CreateKeyed \/ UpdateKeyed

SpecKeyed == Init /\ [][NextKeyed]_vars

\* the same program, called with listeners under the name __proto__
CreateInherited == CreateElementOf(InheritedDescriptions)
UpdateInherited == UpdateElementOf(InheritedDescriptions)

NextInherited == CreateInherited \/ UpdateInherited

SpecInherited == Init /\ [][NextInherited]_vars

\* described = createVirtual(tagName, props, ...children)
CreateVirtual ==
  /\ given = Undefined
  /\ \E propsOpt \in Optional(PropsMaps), children \in VirtualChildren :
       /\ given' = Some([tagName |-> "p", props |-> propsOpt, children |-> children])
       /\ raised' = (IsDefined(propsOpt) /\ createVirtualRaises(ValueOf(propsOpt)))
       /\ described' = IF raised' THEN Undefined
                       ELSE Some(createVirtual("p", propsOpt, children))
       /\ UNCHANGED <<heap, root, hasMoveBefore, call, log, identity,
                      objects, written>>

NextVirtual == CreateVirtual

SpecVirtual == Init /\ [][NextVirtual]_vars

\* the same program, called with descriptions the caller keeps as objects
\* the caller writes a description it has not written yet
DescribeShared ==
  \E virtual \in SharedDescriptions :
    \E made \in {AllocateVirtual(objects, virtual)} :
      /\ \A d \in DescriptionsAt(objects, written) :
           DescriptionAt(objects, d) # virtual
      /\ Cardinality(DOMAIN made.objects) <= MaxObjects
      /\ objects' = made.objects
      /\ written' = written \cup (DOMAIN made.objects \ DOMAIN objects)
      /\ UNCHANGED <<heap, root, hasMoveBefore, call, log, identity, raised,
                     given, described>>

\* el = createElement(virtual) on a description the caller wrote, nested
\* ones included
CreateShared ==
  \E virtual \in DescriptionsAt(objects, written) :
    \E made \in {createElementAt(WorldAt(<<>>, objects), virtual)} :
      \E order \in {IF made.w.raised THEN [i \in DOMAIN heap |-> i]
                    ELSE Preorder(made.w.heap, made.node)} :
        /\ Len(order) <= MaxNodes
        /\ heap' = IF made.w.raised THEN heap ELSE Compact(made.w.heap, order)
        /\ root' = IF made.w.raised THEN root ELSE 1
        /\ call' = [op |-> "createElement",
                    virtual |-> DescriptionAt(objects, virtual)]
        /\ log' = made.w.log
        /\ identity' = order
        /\ raised' = made.w.raised
        /\ objects' = Collect(made.w.objects, written \cup Registries(heap'))
        /\ Cardinality(DOMAIN objects') <= MaxObjects
        /\ UNCHANGED <<hasMoveBefore, given, described, written>>

\* updateElement(el, virtual) on a description the caller wrote
UpdateShared ==
  /\ root # NULL
  /\ \E virtual \in DescriptionsAt(objects, written) :
       \E w \in {updateElementAt(WorldAt(heap, objects), root, virtual,
                                 hasMoveBefore)} :
         \E order \in {Preorder(w.heap, root)} :
           /\ Len(order) <= MaxNodes
           /\ heap' = Compact(w.heap, order)
           /\ call' = [op |-> "updateElement",
                       virtual |-> DescriptionAt(objects, virtual)]
           /\ log' = w.log
           /\ identity' = order
           /\ raised' = w.raised
           /\ objects' = Collect(w.objects, written \cup Registries(heap'))
           /\ Cardinality(DOMAIN objects') <= MaxObjects
           /\ UNCHANGED <<root, hasMoveBefore, given, described, written>>

NextShared == DescribeShared \/ CreateShared \/ UpdateShared

SpecShared == Init /\ [][NextShared]_vars

\* the variant src/src/dom.ts, called on the node the caller names
\* el = createElement(virtual)
CreateDom ==
  \E virtual \in DomDescriptions :
    \E made \in {createElementDom(EmptyWorld, virtual)} :
      \E order \in {IF made.w.raised THEN [i \in DOMAIN heap |-> i]
                    ELSE Preorder(made.w.heap, made.node)} :
        /\ Len(order) <= MaxNodes
        /\ heap' = IF made.w.raised THEN heap ELSE Compact(made.w.heap, order)
        /\ root' = IF made.w.raised THEN root ELSE 1
        /\ call' = [op |-> "createElement", virtual |-> virtual, element |-> NULL]
        /\ log' = made.w.log
        /\ identity' = order
        /\ raised' = made.w.raised
        /\ UNCHANGED <<hasMoveBefore, given, described, objects, written>>

\* updateElement(node, virtual) on a node of the tree: the root, an element
\* below it or a text
UpdateDom ==
  /\ root # NULL
  /\ \E element \in DOMAIN heap, virtual \in DomDescriptions :
       \E w \in {updateElementDom(WorldOf(heap), element, virtual,
                                  hasMoveBefore)} :
         \E order \in {Preorder(w.heap, root)} :
           /\ Len(order) <= MaxNodes
           /\ heap' = Compact(w.heap, order)
           /\ call' = [op |-> "updateElement", virtual |-> virtual,
                       element |-> element]
           /\ log' = w.log
           /\ identity' = order
           /\ raised' = w.raised
           /\ UNCHANGED <<root, hasMoveBefore, given, described, objects, written>>

NextDom == CreateDom \/ UpdateDom

SpecDom == Init /\ [][NextDom]_vars

TypeOK ==
  /\ root \in {NULL, 1}
  /\ DOMAIN heap = 1..Len(identity)
  /\ Len(identity) <= MaxNodes
  /\ root # NULL => IsElement(heap, root)
  /\ call.op \in {"none", "createElement", "updateElement"}
  /\ call.virtual \in Descriptions \cup TreeDescriptions \cup KeyedDescriptions
                       \cup InheritedDescriptions
  /\ hasMoveBefore \in BOOLEAN
  /\ raised \in BOOLEAN

\* ----------------------------------------------------------- observations
\* the description and the element of the last call
Virt == call.virtual
Updated == call.op = "updateElement"
\* the set of entries of an optional mapping
EntriesOf(objOpt) ==
  IF IsDefined(objOpt)
  THEN {ValueOf(objOpt)[i] : i \in DOMAIN ValueOf(objOpt)}
  ELSE {}
\* the list of an optional children field
ChildrenOf(virtual) ==
  IF IsDefined(virtual.children) THEN ValueOf(virtual.children) ELSE <<>>
\* the entries of a mapping as a set
AsSet(obj) == {obj[i] : i \in DOMAIN obj}
\* element e carries exactly the attributes of an optional mapping: it
\* answers each name of the mapping with the mapped value, and each attribute
\* it has is one the mapping names
CarriesAttributes(h, e, attributesOpt) ==
  /\ \A entry \in EntriesOf(attributesOpt) :
       GetAttribute(h, e, entry.name) = Some(entry.value)
  /\ \A i \in DOMAIN h[e].attributes :
       \E entry \in EntriesOf(attributesOpt) :
         AttributeName(h, e, entry.name) = h[e].attributes[i].name
\* the DOM listeners the registry of element e accounts for
RegistryListeners(h, e) ==
  {[type |-> entry.name, callback |-> entry.value.listener,
    capture |-> Capture(entry.value.options)] :
     entry \in AsSet(RegisteredListeners(h, e))}
\* the positions of a log that hold a call of primitive op
Calls(l, op) == {i \in DOMAIN l : l[i][1] = op}
\* the positions of a log that hold a listener call for event name on element e
ListenerCalls(l, op, e, name) ==
  {i \in Calls(l, op) : l[i][2] = e /\ l[i][3] = name}

\* the markup of the live tree: per node its tag, attributes and children, or
\* its text
Markup(h) ==
  [n \in DOMAIN h |->
     IF IsElement(h, n)
     THEN [tagName |-> h[n].tagName, attributes |-> h[n].attributes,
           childNodes |-> h[n].childNodes]
     ELSE [textContent |-> h[n].textContent]]

\* -------------------------------------------------------------------- C1
\* C1: after createElement and after every updateElement, every element's
\* listener registry accounts exactly for the listeners attached to it: each
\* attached listener has its registry entry, each registry entry its attached
\* listener, one entry per attachment.
C1_RegistryEqualsAttached ==
  \A e \in DOMAIN heap :
    IsElement(heap, e) =>
      /\ RegistryListeners(heap, e) = heap[e].listeners
      /\ Cardinality(heap[e].listeners) = Len(RegisteredListeners(heap, e))

\* -------------------------------------------------------------------- C7
\* C7: when a listener is registered under click and the element is
\* reconciled with a description whose only listener is a different reference
\* under click, then afterwards the registry holds exactly that click entry,
\* the old listener is no longer attached, and the new one was attached by
\* exactly one add-listener call (and the old one detached by exactly one
\* remove-listener call).  This is said of a call that returns.
C7_ListenerReplaced ==
  [][ \A old \in AsSet(IF root = NULL THEN <<>> ELSE RegisteredListeners(heap, root)) :
        \A new \in EntriesOf(call'.virtual.listeners) :
          ( /\ call'.op = "updateElement" /\ ~raised'
            /\ old.name = "click" /\ new.name = "click"
            /\ old.value.listener # new.value.listener
            /\ Len(ValueOf(call'.virtual.listeners)) = 1 )
          => /\ RegisteredListeners(heap', root') = <<new>>
             /\ heap'[root'].listeners =
                  {[type |-> "click", callback |-> new.value.listener,
                    capture |-> Capture(new.value.options)]}
             /\ Cardinality(ListenerCalls(log', "addEventListener", root, "click")) = 1
             /\ Cardinality(ListenerCalls(log', "removeEventListener", root, "click")) = 1
             /\ \A i \in ListenerCalls(log', "removeEventListener", root, "click") :
                  log'[i][4] = old.value.listener
             /\ \A i \in ListenerCalls(log', "addEventListener", root, "click") :
                  log'[i][4] = new.value.listener
    ]_vars

\* handler1 under click was replaced by handler2
C7_Witness ==
  /\ Updated
  /\ \E i \in ListenerCalls(log, "removeEventListener", root, "click") :
       log[i][4] = "handler1"
  /\ \E i \in ListenerCalls(log, "addEventListener", root, "click") :
       log[i][4] = "handler2"
  /\ Len(RegisteredListeners(heap, root)) = 1
  /\ GetOwn(RegisteredListeners(heap, root), "click").listener = "handler2"

\* -------------------------------------------------------------------- C9
\* C9: listeners are compared by reference.  For every event name of the new
\* mapping under which the registry holds a listener (what the code reads as
\* registeredListeners[name]): when that is the same listener, updateElement
\* makes no add-listener and no remove-listener call for the name; when it is
\* a different listener, updateElement makes exactly one remove-listener call,
\* for the old listener with its recorded options, and after it exactly one
\* add-listener call, for the new listener.  This is said of a call that
\* returns.
C9_ComparedByReference ==
  [][ \A new \in EntriesOf(call'.virtual.listeners) :
        ( /\ call'.op = "updateElement" /\ ~raised'
          /\ IsDefined(RecordAt(Registry(heap, root), new.name)) )
        => LET old == ValueOf(RecordAt(Registry(heap, root), new.name))
               removes == ListenerCalls(log', "removeEventListener", root, new.name)
               adds == ListenerCalls(log', "addEventListener", root, new.name)
           IN IF old.listener = new.value.listener
              THEN removes = {} /\ adds = {}
              ELSE /\ Cardinality(removes) = 1
                   /\ Cardinality(adds) = 1
                   /\ \A i \in removes : \A j \in adds :
                        /\ i < j
                        /\ log'[i] = <<"removeEventListener", root, new.name,
                                       old.listener, old.options>>
                        /\ log'[j] = <<"addEventListener", root, new.name,
                                       new.value.listener, new.value.options>>
    ]_vars

\* -------------------------------------------------------------------- C2
\* whether the children of element e correspond one-to-one and in order to
\* the list children: an element with the description's tag for a description,
\* a text node with the string's content for a string, and nothing else
ChildrenCorrespond(h, e, children) ==
  /\ Len(h[e].childNodes) = Len(children)
  /\ \A i \in DOMAIN children :
       LET node == h[e].childNodes[i]
       IN IF IsObject(children[i])
          THEN /\ IsElement(h, node)
               /\ toLowerCase(h[node].tagName) = toLowerCase(children[i].tagName)
          ELSE /\ IsText(h, node)
               /\ h[node].textContent = children[i].text

\* C2: once updateElement(el, d) has returned, the children of el correspond
\* one-to-one and in order to d.children, and el has no further child.
C2_ChildrenMatchDescription ==
  (Updated /\ ~raised) => ChildrenCorrespond(heap, root, ChildrenOf(Virt))

\* -------------------------------------------------------------------- C3
\* C3: a second updateElement(el, d) directly after the first leaves the tree
\* as the first left it and makes no primitive call (both calls returning).
C3_SecondUpdateIsNoOp ==
  [][ ( /\ call.op = "updateElement" /\ ~raised
        /\ call'.op = "updateElement" /\ ~raised'
        /\ call'.virtual = call.virtual )
      => (Markup(heap') = Markup(heap) /\ log' = <<>>) ]_vars

\* -------------------------------------------------------------------- C4
\* C4: updateElement(createElement(d), d) leaves the tree as createElement(d)
\* built it and makes no add-listener and no remove-listener call (both
\* calls returning).
C4_UpdateAfterCreateKeepsTree ==
  [][ ( /\ call.op = "createElement" /\ ~raised
        /\ call'.op = "updateElement" /\ ~raised'
        /\ call'.virtual = call.virtual )
      => /\ Markup(heap') = Markup(heap)
         /\ Calls(log', "addEventListener") = {}
         /\ Calls(log', "removeEventListener") = {} ]_vars

\* -------------------------------------------------------------------- C5
\* whether element e matches description virtual at every depth: its
\* attributes, its registry and attached listeners, and its children
RECURSIVE Conforms(_, _, _)
Conforms(h, e, virtual) ==
  /\ CarriesAttributes(h, e, virtual.attributes)
  /\ AsSet(RegisteredListeners(h, e)) = EntriesOf(virtual.listeners)
  /\ ChildrenCorrespond(h, e, ChildrenOf(virtual))
  /\ \A i \in DOMAIN ChildrenOf(virtual) :
       IsObject(ChildrenOf(virtual)[i])
         => Conforms(h, h[e].childNodes[i], ChildrenOf(virtual)[i])

\* C5: after updateElement(parent, d) has returned, every child description that was
\* matched to a child the parent already had finds that child reconciled with
\* it: attributes, listeners and children match, at every depth.
C5_ReusedChildReconciled ==
  [][ (call'.op = "updateElement" /\ ~raised') =>
        LET children == ChildrenOf(call'.virtual)
            nodes == heap'[root'].childNodes
            first == Len(nodes) - Len(children)
        IN \A i \in DOMAIN children :
             ( /\ IsObject(children[i])
               /\ \E k \in DOMAIN heap[root].childNodes :
                    heap[root].childNodes[k] = identity'[nodes[first + i]] )
             => Conforms(heap', nodes[first + i], children[i]) ]_vars

\* -------------------------------------------------------------------- C6
\* C6: after updateElement(el, d) has returned, el carries exactly the attributes of
\* d.attributes: each name with its mapped value, and no other name.
C6_AttributesEqualDescription ==
  (Updated /\ ~raised) => CarriesAttributes(heap, root, Virt.attributes)

\* -------------------------------------------------------------------- C8
\* C8: after updateElement(el, d) has returned, the registry of el equals d.listeners entry
\* for entry: the same names, and per name the same listener and options.
C8_RegistryEqualsDescription ==
  (Updated /\ ~raised)
    => AsSet(RegisteredListeners(heap, root)) = EntriesOf(Virt.listeners)

\* ------------------------------------------------------------------- C10
\* C10: updateElement(el, d) with a live element whose tag name differs, case
\* ignored, from d.tagName raises an error.
C10_TagMismatchRaises ==
  (Updated /\ toLowerCase(heap[root].tagName) # toLowerCase(Virt.tagName))
    => raised

\* ------------------------------------------------------------------- C19
\* the props of the createVirtual call, as a set of entries
GivenProps == IF IsDefined(given) THEN EntriesOf(ValueOf(given).props) ELSE {}
\* the event name a prop name stands for: the name past "on", lower-cased
EventOf(name) ==
  CASE name = "onClick" -> "click"
    [] name = "onMouseEnter" -> "mouseenter"
    [] name = "on1" -> "1"
    [] name = "on__proto__" -> "__proto__"
    [] name = "once" -> "ce"
\* a function or an object with a handleEvent method
IsBareListener(value) ==
  \/ value.typeof = "function"
  \/ (value.typeof = "object" /\ "handleEvent" \in value.has)
\* the props that name a listener: "on..." with a function, a handler object
\* or a {listener, options} record
ListenerProps ==
  {e \in GivenProps :
     /\ e.name \in {"onClick", "onMouseEnter", "on1", "on__proto__", "once"}
     /\ \/ IsBareListener(e.value)
        \/ (e.value.typeof = "object" /\ "listener" \in e.value.has)}

\* C19: createVirtual turns every prop whose name starts with "on" and whose
\* value is a function, a handler object or a {listener, options} record into
\* a listener entry under the rest of the name, lower-cased; a bare function
\* or handler object is wrapped as {listener: value}, a record is stored as
\* given; the prop is not among the attributes; listeners is unset when there
\* is no such prop.
C19_ListenerPropsBecomeListeners ==
  IsDefined(described) =>
    LET listeners == ValueOf(described).listeners
        attributes == ValueOf(described).attributes
    IN /\ \A e \in ListenerProps :
            /\ IsDefined(listeners)
            /\ HasOwn(ValueOf(listeners), EventOf(e.name))
            /\ GetOwn(ValueOf(listeners), EventOf(e.name)) =
                 IF IsBareListener(e.value)
                 THEN [listener |-> e.value.ref, options |-> "undefined"]
                 ELSE e.value.record
            /\ IsDefined(attributes) => ~HasOwn(ValueOf(attributes), e.name)
       /\ ListenerProps = {} => listeners = Undefined
       /\ IsDefined(listeners) =>
            PropertyNames(ValueOf(listeners)) = {EventOf(e.name) : e \in ListenerProps}

\* ------------------------------------------------------------------- C20
\* the string a defined prop value converts to
StringOf(value) ==
  CASE value.typeof = "string" -> value.string
    [] value.typeof = "function" -> value.source
    [] value.typeof = "object" -> "[object Object]"
\* the props that are no listener and whose value is defined
AttributeProps ==
  {e \in GivenProps \ ListenerProps :
     e.value.typeof # "undefined" /\ ~IsNull(e.value)}

\* C20: every prop that is not classified as a listener and whose value is
\* defined appears in attributes under its own name with its value converted
\* to a string; attributes is unset when there is no such prop.
C20_DefinedPropsBecomeAttributes ==
  IsDefined(described) =>
    LET attributes == ValueOf(described).attributes
    IN /\ \A e \in AttributeProps :
            /\ IsDefined(attributes)
            /\ HasOwn(ValueOf(attributes), e.name)
            /\ GetOwn(ValueOf(attributes), e.name) = StringOf(e.value)
       /\ AttributeProps = {} => attributes = Undefined

\* ------------------------------------------------------------------- C17
\* the DOM listener a registry entry stands for
AttachedAs(entry) ==
  [type |-> entry.name, callback |-> entry.value.listener,
   capture |-> Capture(entry.value.options)]

\* C17: every remove-listener call of updateElement passes the event name,
\* the listener and the options the registry recorded when that listener was
\* attached (not those of the new description); the listener it names was
\* attached to the element and is detached afterwards, and no event name is
\* detached twice.
C17_DetachUsesRecordedOptions ==
  [][ call'.op = "updateElement" =>
        \A i \in Calls(log', "removeEventListener") :
          /\ log'[i][2] = root
          /\ \E old \in AsSet(RegisteredListeners(heap, root)) :
               /\ log'[i] = <<"removeEventListener", root, old.name,
                              old.value.listener, old.value.options>>
               /\ AttachedAs(old) \in heap[root].listeners
               /\ AttachedAs(old) \notin heap'[root'].listeners
          /\ Cardinality(ListenerCalls(log', "removeEventListener", root, log'[i][3])) = 1
    ]_vars

\* a listener attached with capture was detached with capture although the
\* description names another listener without options for the same event
C17_Witness ==
  /\ Updated
  /\ \E i \in Calls(log, "removeEventListener") :
       log[i] = <<"removeEventListener", root, "click", "handler1", "capture">>
  /\ [name |-> "click", value |-> [listener |-> "handler2", options |-> "undefined"]]
       \in EntriesOf(Virt.listeners)

\* ------------------------------------------------------------------- C18
\* the positions of a log that hold an attribute call for name on element e
AttributeCalls(l, op, e, name) ==
  {i \in Calls(l, op) : l[i][2] = e /\ l[i][3] = name}

\* C18: reconciling an element whose attribute a has value v with a mapping
\* that gives a another value makes exactly one set-attribute call for a and
\* no remove-attribute call; with an empty mapping it makes exactly one
\* remove-attribute call for a and no set-attribute call; with a mapping that
\* gives a the value v it makes no call for a (of a call that returns).
C18_MinimalAttributeCalls ==
  [][ (call'.op = "updateElement" /\ ~raised') =>
        LET mapping == IF IsDefined(call'.virtual.attributes)
                       THEN ValueOf(call'.virtual.attributes) ELSE <<>>
        IN \A old \in AsSet(heap[root].attributes) :
             LET sets == AttributeCalls(log', "setAttribute", root, old.name)
                 removes == AttributeCalls(log', "removeAttribute", root, old.name)
             IN /\ (HasOwn(mapping, old.name)
                      /\ GetOwn(mapping, old.name) # old.value)
                     => (Cardinality(sets) = 1 /\ removes = {})
                /\ mapping = <<>>
                     => (Cardinality(removes) = 1 /\ sets = {})
                /\ (HasOwn(mapping, old.name)
                      /\ GetOwn(mapping, old.name) = old.value)
                     => (sets = {} /\ removes = {})
    ]_vars

\* ------------------------------------------------------------------- C13
\* the text children of element e whose content is text
TextChildren(h, e, text) ==
  {h[e].childNodes[k] : k \in {j \in DOMAIN h[e].childNodes :
                                 /\ IsText(h, h[e].childNodes[j])
                                 /\ h[h[e].childNodes[j]].textContent = text}}
\* how many of the first i entries of children equal the i-th
Occurrence(children, i) ==
  Cardinality({j \in 1..i : children[j] = children[i]})

\* C13: a new string child whose content an existing text child has reuses
\* such a text node, as long as earlier equal strings of the list have not
\* used them all up: the node in its place is one of the element's text
\* children of that content (same identity), so none is created for it, and
\* that node is not removed (of a call that returns).
C13_TextReused ==
  [][ (call'.op = "updateElement" /\ ~raised') =>
        LET children == ChildrenOf(call'.virtual)
            nodes == heap'[root'].childNodes
            first == Len(nodes) - Len(children)
        IN \A i \in DOMAIN children :
             ( /\ ~IsObject(children[i])
               /\ Cardinality(TextChildren(heap, root, children[i].text))
                    >= Occurrence(children, i) )
             => /\ identity'[nodes[first + i]]
                     \in TextChildren(heap, root, children[i].text)
                /\ \A r \in Calls(log', "removeChild") :
                     log'[r][3] # identity'[nodes[first + i]]
    ]_vars

\* ------------------------------------------------------------------- C14
\* C14: after updateElement has returned from a description whose children
\* are unset, the element has no child, whatever children it had before.
C14_UnsetChildrenRemoveAll ==
  (Updated /\ ~raised /\ ~IsDefined(Virt.children))
    => heap[root].childNodes = <<>>

\* ------------------------------------------------------------------- C12
\* the children of the root before the step, as a set of node identities
OldChildren == {heap[root].childNodes[k] : k \in DOMAIN heap[root].childNodes}
\* the key a description carries: an optional string
DescriptionKey(child) ==
  IF IsDefined(child.attributes) /\ HasOwn(ValueOf(child.attributes), KEY_ATTRIBUTE)
  THEN Some(GetOwn(ValueOf(child.attributes), KEY_ATTRIBUTE))
  ELSE Undefined
\* how many entries of a sequence satisfy a test
Count(seq, Test(_)) == Cardinality({k \in DOMAIN seq : Test(seq[k])})

\* C12: when the children of the element are unkeyed elements and the new
\* children are unkeyed descriptions with the same tags, as many of each, then
\* updateElement yields the new order using only the original nodes: it
\* creates no node and removes none.
C12_UnkeyedReorderReuses ==
  [][ LET children == ChildrenOf(call'.virtual)
          old == heap[root].childNodes
          nodes == heap'[root'].childNodes
      IN ( /\ call'.op = "updateElement"
           /\ \A k \in DOMAIN old :
                IsElement(heap, old[k]) /\ ~HasAttribute(heap, old[k], KEY_ATTRIBUTE)
           /\ \A i \in DOMAIN children :
                IsObject(children[i]) /\ ~IsDefined(DescriptionKey(children[i]))
           /\ Len(old) = Len(children)
           /\ \A t \in {"span", "h1", "div"} :
                Count(old, LAMBDA n : toLowerCase(heap[n].tagName) = t)
                  = Count(children, LAMBDA c : toLowerCase(c.tagName) = t) )
         => /\ Calls(log', "createElement") = {}
            /\ Calls(log', "createTextNode") = {}
            /\ Calls(log', "removeChild") = {}
            /\ Len(nodes) = Len(children)
            /\ \A i \in DOMAIN children :
                 /\ toLowerCase(heap'[nodes[i]].tagName) = toLowerCase(children[i].tagName)
                 /\ identity'[nodes[i]] \in OldChildren
            /\ {identity'[nodes[i]] : i \in DOMAIN nodes} = OldChildren
    ]_vars

\* span, h1 became h1, span: the second child moved before the first and no
\* node was created
C12_Witness ==
  /\ Updated
  /\ ChildrenOf(Virt) = << Virtual("h1", Undefined, Undefined, Undefined),
                           Virtual("span", Undefined, Undefined, Undefined) >>
  /\ identity = <<1, 3, 2>>
  /\ Calls(log, "createElement") = {}
  /\ Calls(log, "moveBefore") \cup Calls(log, "insertBefore") # {}

\* ------------------------------------------------------------------- C15
\* the index keys in play in a step: of the live element children and of the
\* new child descriptions
IndexKeys(h, old, children) ==
  {ElementKey(h, old[k]) : k \in {j \in DOMAIN old : IsElement(h, old[j])}}
  \cup {VirtualKey(children[i]) : i \in {j \in DOMAIN children : IsObject(children[j])}}
\* the live element children under index key x, in document order
LiveUnder(h, old, x) ==
  SelectSeq(old, LAMBDA n : IsElement(h, n) /\ ElementKey(h, n) = x)
\* the places of the new children under index key x, in list order
WantedUnder(children, x) ==
  SelectSeq([i \in DOMAIN children |-> i],
            LAMBDA i : IsObject(children[i]) /\ VirtualKey(children[i]) = x)

\* C15: when several live element children share an index key, the new
\* children with that index key receive them first in, first out: the j-th
\* such new child gets the j-th such live node; live nodes left over are
\* removed, new children beyond the supply are newly created, and nothing is
\* raised.
C15_DuplicatesServedInOrder ==
  [][ call'.op = "updateElement" =>
        LET children == ChildrenOf(call'.virtual)
            old == heap[root].childNodes
            nodes == heap'[root'].childNodes
        IN \A x \in IndexKeys(heap, old, children) :
             LET live == LiveUnder(heap, old, x)
                 wanted == WantedUnder(children, x)
             IN Len(live) >= 2 =>
                  /\ raised' = FALSE
                  /\ Len(nodes) = Len(children)
                  /\ \A j \in DOMAIN wanted :
                       IF j <= Len(live)
                       THEN identity'[nodes[wanted[j]]] = live[j]
                       ELSE identity'[nodes[wanted[j]]] \notin OldChildren
                  /\ \A j \in DOMAIN live :
                       j > Len(wanted) =>
                         /\ \A i \in DOMAIN nodes : identity'[nodes[i]] # live[j]
                         /\ \E r \in Calls(log', "removeChild") :
                              log'[r] = <<"removeChild", root, live[j]>>
    ]_vars

\* two live spans met three span descriptions: both were kept in place and
\* one element was created and put last
C15_Witness ==
  /\ Updated
  /\ Virt = ThreeSpans
  /\ identity = <<1, 2, 3, 4>>
  /\ log = << <<"createElement", 4>>, <<"insertBefore", 1, 4, NULL>> >>

\* ------------------------------------------------------------------- C11
\* whether live element n has the tag (case ignored) and the key of a
\* description: both without key attribute, or both with the same value
SameTagAndKey(h, n, child) ==
  /\ IsElement(h, n)
  /\ toLowerCase(h[n].tagName) = toLowerCase(child.tagName)
  /\ GetAttribute(h, n, KEY_ATTRIBUTE) = DescriptionKey(child)

\* C11: in child reconciliation a description with tag t and key k reuses a
\* live child with tag t and key k when there is one (as long as earlier
\* equal descriptions have not used them up) and gets a newly created element
\* when there is none; a live keyed child whose tag and key no new child
\* requests is removed; the children stand in the order of the new list.
C11_KeyedChildrenReused ==
  [][ call'.op = "updateElement" =>
        LET children == ChildrenOf(call'.virtual)
            nodes == heap'[root'].childNodes
        IN /\ Len(nodes) = Len(children)
           /\ \A i \in DOMAIN children :
                IsDefined(DescriptionKey(children[i])) =>
                  LET matches == {n \in OldChildren : SameTagAndKey(heap, n, children[i])}
                  IN /\ SameTagAndKey(heap', nodes[i], children[i])
                     /\ Cardinality(matches) >= Occurrence(children, i)
                          => identity'[nodes[i]] \in matches
                     /\ matches = {} => identity'[nodes[i]] \notin OldChildren
           /\ \A n \in OldChildren :
                ( /\ IsElement(heap, n)
                  /\ HasAttribute(heap, n, KEY_ATTRIBUTE)
                  /\ \A i \in DOMAIN children : ~SameTagAndKey(heap, n, children[i]) )
                => \A i \in DOMAIN nodes : identity'[nodes[i]] # n
    ]_vars

\* ------------------------------------------------------------------- C16
\* C16: a child description is matched to a live element child only when
\* their lower-cased tag names are equal and their keys agree (neither has a
\* key attribute, or both have it with the same value); the live index key and
\* the description index key coincide exactly in that case, for every key
\* value; a string is matched only to a text child of exactly that content.
C16_MatchedOnlyOnTagAndKey ==
  [][ call'.op = "updateElement" =>
        LET children == ChildrenOf(call'.virtual)
            nodes == heap'[root'].childNodes
            first == Len(nodes) - Len(children)
        IN \A i \in DOMAIN children :
             /\ identity'[nodes[first + i]] \in OldChildren =>
                  IF IsObject(children[i])
                  THEN SameTagAndKey(heap, identity'[nodes[first + i]], children[i])
                  ELSE /\ IsText(heap, identity'[nodes[first + i]])
                       /\ heap[identity'[nodes[first + i]]].textContent = children[i].text
             /\ IsObject(children[i]) =>
                  \A n \in OldChildren :
                    IsElement(heap, n) =>
                      ( SameTagAndKey(heap, n, children[i])
                          <=> ElementKey(heap, n) = VirtualKey(children[i]) )
    ]_vars

\* ------------------------------------------------------------------- C21
\* C21: createVirtual stores the children passed to it verbatim and in order,
\* and leaves children unset, not an empty list, when no child was passed.
C21_ChildrenStoredVerbatim ==
  IsDefined(described) =>
    ValueOf(described).children =
      IF ValueOf(given).children = <<>>
      THEN Undefined
      ELSE Some(ValueOf(given).children)

\* a string, a nested description and another string were passed and stored
C21_Witness ==
  /\ IsDefined(described)
  /\ ValueOf(described).children =
       Some(<<Text("b"), Virtual("span", Undefined, Undefined, Undefined), Text("a")>>)

\* ------------------------------------------------------------------- C22
\* whether element e is what description virtual asks for, at every depth:
\* its tag, exactly its attributes, its listeners attached with their options
\* and recorded, and one child per entry in the same order
RECURSIVE Materializes(_, _, _)
Materializes(h, e, virtual) ==
  /\ IsElement(h, e)
  /\ h[e].tagName = (IF NamespaceURI(virtual) \in {"", HTML_NAMESPACE}
                     THEN AsciiUpperCase(virtual.tagName) ELSE virtual.tagName)
  /\ CarriesAttributes(h, e, virtual.attributes)
  /\ h[e].listeners = {AttachedAs(entry) : entry \in EntriesOf(virtual.listeners)}
  /\ AsSet(RegisteredListeners(h, e)) = EntriesOf(virtual.listeners)
  /\ Len(h[e].childNodes) = Len(ChildrenOf(virtual))
  /\ \A i \in DOMAIN ChildrenOf(virtual) :
       LET child == ChildrenOf(virtual)[i]
           node == h[e].childNodes[i]
       IN IF IsObject(child)
          THEN Materializes(h, node, child)
          ELSE IsText(h, node) /\ h[node].textContent = child.text

\* C22: createElement(d) returns a new element with tag d.tagName that
\* carries exactly the attributes of d.attributes, has every listener of
\* d.listeners attached with its options and recorded in its registry, and has
\* one child per entry of d.children in order: a materialized element for a
\* nested description, a text node with that content for a string.  Every
\* node of the result was created by this call.
C22_CreateElementMaterializes ==
  (call.op = "createElement" /\ ~raised) =>
    /\ Materializes(heap, root, Virt)
    /\ log[1] = <<"createElement", identity[root]>>
    /\ Cardinality(Calls(log, "createElement") \cup Calls(log, "createTextNode"))
         = Len(heap)

\* ------------------------------------------------------------------- C24
\* C24: within one attribute reconciliation the names to remove are among the
\* attributes present before any change, every set-attribute call happens
\* before every remove-attribute call, and no name is both set and removed
\* (of a call that returns).
C24_SetBeforeRemove ==
  [][ (call'.op = "updateElement" /\ ~raised') =>
        LET sets == {i \in Calls(log', "setAttribute") : log'[i][2] = root}
            removes == {j \in Calls(log', "removeAttribute") : log'[j][2] = root}
        IN /\ \A j \in removes : HasAttribute(heap, root, log'[j][3])
           /\ \A i \in sets : \A j \in removes :
                /\ i < j
                /\ log'[i][3] # log'[j][3]
    ]_vars

\* ------------------------------------------------------------------- C30
\* the listeners attached to element e after the first k calls of log l,
\* starting from the set before
RECURSIVE AttachedAt(_, _, _, _)
AttachedAt(before, l, e, k) ==
  IF k = 0 THEN before
  ELSE LET prev == AttachedAt(before, l, e, k - 1)
           listener == [type |-> l[k][3], callback |-> l[k][4],
                        capture |-> Capture(l[k][5])]
       IN IF l[k][1] = "addEventListener" /\ l[k][2] = e
          THEN prev \cup {listener}
          ELSE IF l[k][1] = "removeEventListener" /\ l[k][2] = e
          THEN prev \ {listener}
          ELSE prev
\* at most one listener of a set per event name
OnePerName(listeners) ==
  \A x, y \in listeners : x.type = y.type => x = y

\* C30: at every moment each element has at most one listener attached per
\* event name and its registry at most one entry per name: during
\* updateElement every remove-listener call precedes every add-listener call,
\* and after each single call the attached listeners are still one per name.
C30_OneListenerPerName ==
  [][ /\ \A e \in DOMAIN heap' :
           IsElement(heap', e) =>
             /\ OnePerName(heap'[e].listeners)
             /\ Cardinality(PropertyNames(RegisteredListeners(heap', e)))
                  = Len(RegisteredListeners(heap', e))
      /\ call'.op = "updateElement" =>
           /\ \A i \in Calls(log', "removeEventListener") :
                \A j \in Calls(log', "addEventListener") :
                  (log'[i][2] = root /\ log'[j][2] = root) => i < j
           /\ \A k \in 0..Len(log') :
                OnePerName(AttachedAt(heap[root].listeners, log', root, k))
    ]_vars

\* ------------------------------------------------------------------- C29
\* C29: when updateElement raises its tag-mismatch or its not-an-element
\* error, it has mutated nothing: the throw is the only thing the call did,
\* and every node of the tree, the node passed included, has the attributes,
\* the attached listeners, the registry and the children it had before the
\* call.
C29_RaisesBeforeMutation ==
  [][(call'.op = "updateElement" /\ Calls(log', "throw") # {}) =>
       (heap' = heap /\ Len(log') = 1)]_vars

\* an update has raised the tag-mismatch error on an element that lacks an
\* attribute the description asks for
C29_Witness ==
  /\ Updated
  /\ Calls(log, "throw") # {}
  /\ IsElement(heap, call.element)
  /\ \E entry \in EntriesOf(call.virtual.attributes) :
       GetAttribute(heap, call.element, entry.name) # Some(entry.value)

\* ------------------------------------------------------------------- C27
\* the world in which the update of this step reconciles the children: after
\* the attributes and the listeners of the root
ChildrenWorld ==
  The({ updateListeners(w1, root, Listeners(call'.virtual)) :
        w1 \in { updateAttributes(WorldOf(heap), root,
                                  call'.virtual.attributes) } })
\* what "Build the list of new children" yields in this step
BuiltNow ==
  The({ NewNodes(w2, root, call'.virtual.children) : w2 \in {ChildrenWorld} })

\* C27: during one child reconciliation the new node list never holds the
\* same node twice, whatever duplicates the description contains, and each of
\* its nodes is a former child of the parent or a node created in this call
\* (the list of a reconciliation that completes).
C27_NewNodesDistinct ==
  [][ (call'.op = "updateElement" /\ ~raised') =>
        \A built \in {BuiltNow} :
        LET newNodes == built.newNodes
        IN /\ Len(newNodes) = Len(ChildrenOf(call'.virtual))
           /\ \A i, j \in DOMAIN newNodes : i # j => newNodes[i] # newNodes[j]
           /\ \A i \in DOMAIN newNodes :
                \/ newNodes[i] \in OldChildren
                \/ /\ newNodes[i] \notin DOMAIN heap
                   /\ newNodes[i] \in DOMAIN built.w.heap
    ]_vars

\* the description repeats a string that the element has once: the live text
\* node was taken once and one text node was created
C27_Witness ==
  /\ Updated
  /\ ChildrenOf(Virt) = <<Text("a"), Text("a")>>
  /\ Cardinality(Calls(log, "createTextNode")) = 1
  /\ Calls(log, "removeChild") = {}
  /\ Len(heap[root].childNodes) = 2

\* ------------------------------------------------------------------- C28
\* C28: when child reconciliation returns, the nodes of the new node list are
\* the last children of the parent, in list order: each is a child, the next
\* sibling of the node at position i is the node at position i+1, the last has
\* no next sibling, and any other child stands before all of them.
C28_NewNodesAtEnd ==
  [][ (call'.op = "updateElement" /\ ~raised') =>
        \A built \in {BuiltNow} :
        LET newNodes == built.newNodes
            nodes == heap'[root'].childNodes
            first == Len(nodes) - Len(newNodes)
        IN /\ first >= 0
           /\ \A i \in DOMAIN newNodes : identity'[nodes[first + i]] = newNodes[i]
           /\ \A k \in 1..first :
                \A i \in DOMAIN newNodes : identity'[nodes[k]] # newNodes[i]
    ]_vars

\* a text and an element changed places
C28_Witness ==
  /\ Updated
  /\ identity = <<1, 3, 2>>
  /\ IsElement(heap, 2)
  /\ IsText(heap, 3)

\* ------------------------------------------------------------------- C25
\* the heap when the placement pass, started in world w, reaches position i
\* of the new node list: the positions after i have been placed
HeapAtPlacing(w, newNodes, i, moveBefore) ==
  LET rest == SubSeq(newNodes, i + 1, Len(newNodes))
  IN PlaceNodes(w, root, rest, Len(rest), moveBefore).heap
\* the calls of a log that place node n below parent p
PlacingCalls(l, p, n) ==
  {k \in Calls(l, "insertBefore") \cup Calls(l, "moveBefore") :
     l[k][2] = p /\ l[k][3] = n}

\* C25: in the placement pass a node that is already a child of the parent
\* and whose next sibling, when its turn comes, is already its computed next
\* sibling is neither moved nor inserted; when the new node list is the
\* child list as it stands, child reconciliation calls no insert, move or
\* remove-child primitive.
C25_PlacedNodesNotMoved ==
  [][ call'.op = "updateElement" =>
        \A built \in {BuiltNow} :
          \A w \in {RemoveLeftovers(built, root)} :
            /\ \A i \in DOMAIN built.newNodes :
                 \A h \in {HeapAtPlacing(w, built.newNodes, i, hasMoveBefore)} :
                   LET nextSibling == IF i + 1 <= Len(built.newNodes)
                                      THEN built.newNodes[i + 1] ELSE NULL
                   IN ( /\ ParentNode(h, built.newNodes[i]) = root
                        /\ NextSibling(h, built.newNodes[i]) = nextSibling )
                      => PlacingCalls(log', root, built.newNodes[i]) = {}
            /\ built.newNodes = heap[root].childNodes =>
                 /\ Calls(log', "insertBefore") = {}
                 /\ Calls(log', "moveBefore") = {}
                 /\ Calls(log', "removeChild") = {}
                 /\ Calls(log', "appendChild") = {}
    ]_vars

\* of two keyed children the second stayed where it was, while the first was
\* removed and a new element was inserted before the second
C25_Witness ==
  /\ Updated
  /\ identity = <<1, 4, 3>>
  /\ PlacingCalls(log, root, 3) = {}
  /\ PlacingCalls(log, root, 4) # {}
  /\ \E r \in Calls(log, "removeChild") : log[r] = <<"removeChild", root, 2>>

\* ------------------------------------------------------------------- C26
\* C26: a node that is already a child of the parent and has to be
\* repositioned is moved with move-before when the parent offers it and with
\* insert-before otherwise; a node that is not yet a child is always placed
\* with insert-before, once; both paths end in the same tree.
C26_MoveBeforeWhenOffered ==
  [][ call'.op = "updateElement" =>
        \A built \in {BuiltNow} :
        LET newNodes == built.newNodes
            other == The({ Compact(w.heap, Preorder(w.heap, root)) :
                           w \in { updateElement(WorldOf(heap), root,
                                                 call'.virtual, ~hasMoveBefore) } })
        IN /\ \A k \in Calls(log', "moveBefore") :
                hasMoveBefore /\ log'[k][2] = root /\ log'[k][3] \in OldChildren
           /\ \A k \in Calls(log', "insertBefore") :
                /\ log'[k][2] = root
                /\ log'[k][3] \in OldChildren => ~hasMoveBefore
           /\ \A i \in DOMAIN newNodes :
                newNodes[i] \notin OldChildren =>
                  /\ Cardinality(PlacingCalls(log', root, newNodes[i])) = 1
                  /\ \A k \in PlacingCalls(log', root, newNodes[i]) :
                       log'[k][1] = "insertBefore"
           /\ heap' = other
    ]_vars

\* the parent offers moveBefore and the second of two children was moved
\* before the first
C26_Witness ==
  /\ Updated
  /\ hasMoveBefore
  /\ identity = <<1, 3, 2>>
  /\ Calls(log, "moveBefore") # {}
  /\ Calls(log, "insertBefore") = {}

\* ---------------------------------------------------------------------- C23
\* the heap with each registry read through its references: the own entries
\* with their records and the record that is its prototype
RegistryValue(objs, ref) ==
  ObjectWith([i \in DOMAIN objs[ref].own |->
                [name |-> objs[ref].own[i].name,
                 value |-> objs[objs[ref].own[i].value]]],
             IF IsDefined(objs[ref].proto)
             THEN Some(objs[ValueOf(objs[ref].proto)]) ELSE Undefined)
HeapValue(h, objs) ==
  [n \in DOMAIN h |->
     IF IsElement(h, n) /\ IsDefined(h[n].registered)
     THEN [h[n] EXCEPT !.registered = Some(RegistryValue(objs, ValueOf(@)))]
     ELSE h[n]]

\* the calls on references build what the calls on values build: the same
\* nodes, the same registries and the same primitive calls
SharedAgreesWithValues ==
  [][/\ call'.op = "createElement" /\ call' # call =>
          LET made == createElement(EmptyWorld, call'.virtual)
          IN /\ log' = made.w.log
             /\ HeapValue(heap', objects') =
                  Compact(made.w.heap, Preorder(made.w.heap, made.node))
     /\ call'.op = "updateElement" /\ log' # log =>
          LET w == updateElement(WorldOf(HeapValue(heap, objects)), root,
                                 call'.virtual, hasMoveBefore)
          IN /\ log' = w.log
             /\ HeapValue(heap', objects') = Compact(w.heap, Preorder(w.heap, root))]_vars

\* the objects a description reaches: the description, its attribute mapping,
\* its listener mapping and the records it holds, its children array and what
\* each nested description reaches
RECURSIVE ObjectsOf(_, _)
ObjectsOf(objs, virtual) ==
  LET v == objs[virtual]
      listeners == IF IsDefined(v.listeners)
                   THEN {ValueOf(v.listeners)}
                          \cup {objs[ValueOf(v.listeners)].own[i].value :
                                  i \in DOMAIN objs[ValueOf(v.listeners)].own}
                   ELSE {}
      items == IF IsDefined(v.children)
               THEN objs[ValueOf(v.children)].items ELSE <<>>
  IN {virtual}
       \cup (IF IsDefined(v.attributes) THEN {ValueOf(v.attributes)} ELSE {})
       \cup listeners
       \cup (IF IsDefined(v.children) THEN {ValueOf(v.children)} ELSE {})
       \cup UNION {ObjectsOf(objs, items[i].ref) :
                     i \in {k \in DOMAIN items : IsReference(items[k])}}

\* C23: neither createElement nor updateElement modifies the description it
\* is passed: every description the caller wrote stays in the store, and every
\* object it reaches (the description with its tag name, the attribute
\* mapping, the listener mapping and each {listener, options} record, the
\* children array and the nested descriptions with theirs) is after each call
\* the object it was before the call, for the description of this call and
\* for the descriptions of earlier calls alike, also when the call deletes
\* registry entries; the caller's own step adds objects and changes none.
C23_DescriptionsUnchanged ==
  [][\A d \in DescriptionsAt(objects, written) :
       \A o \in ObjectsOf(objects, d) :
         o \in DOMAIN objects' /\ objects'[o] = objects[o]]_vars

\* an update has detached the click listener an earlier description attached
\* and deleted its registry entry, and a description with attributes, a click
\* listener and a nested description that has listeners is in the store
C23_Witness ==
  /\ Updated
  /\ Calls(log, "removeEventListener") # {}
  /\ IsDefined(heap[root].registered)
  /\ ~HasOwn(objects[ValueOf(heap[root].registered)].own, "click")
  /\ \E d \in DescriptionsAt(objects, written) :
       /\ IsDefined(objects[d].attributes)
       /\ IsDefined(objects[d].listeners)
       /\ HasOwn(objects[ValueOf(objects[d].listeners)].own, "click")
       /\ IsDefined(objects[d].children)
       /\ \E i \in DOMAIN objects[ValueOf(objects[d].children)].items :
            LET item == objects[ValueOf(objects[d].children)].items[i]
            IN IsReference(item) /\ IsDefined(objects[item.ref].listeners)


=============================================================================
